---- MODULE Spec2Model ----
(***************************************************************************)
(* A model of APIQueryAnalyzer (src/api_query_analyzer.py): the endpoint   *)
(* aggregator results['backend_endpoints'], the scanners that feed it,     *)
(* the request-body extractor with its depth-aware tokenizer, and the      *)
(* body-structure comparison.                                              *)
(*                                                                         *)
(* Text is a sequence of one-character strings.  Python's None is the      *)
(* one-element sequence None, which no text equals.                        *)
(***************************************************************************)
EXTENDS Integers, Sequences, FiniteSets, TLC

VARIABLES
    endpoints,   \* self.results['backend_endpoints']: endpoint key -> record
    queue,       \* the observations analyze_file has still to make for its file
    n_files,     \* the number of files analyze_all_files has passed to analyze_file
    analysed,    \* history: the contents passed to analyze_file so far
    seen,        \* history: the observations made so far
    last,        \* history: the observation made last, and whether it was in seen
    observed,    \* history: the bodies observed so far, in the order observed
    tok,         \* the tokenizer loop of _extract_body_structure in progress
    cmp,         \* one evaluation of _compare_body_structures
    ext,         \* one evaluation of the body extractor on one value
    call,        \* the search for the end of a call in _process_api_call_with_params
    norm         \* one evaluation of the exporter's _normalize_path

vars ==
    <<endpoints, queue, n_files, analysed, seen, last, observed, tok, cmp, ext,
      call, norm>>

(***************************************************************************)
(* Bounds.                                                                 *)
(***************************************************************************)
MaxTokLen == 3

(***************************************************************************)
(* Text helpers (Python str methods).                                      *)
(***************************************************************************)
None == <<"None">>

Whitespace == {" ", "\n", "\t"}

Digits == {"0", "1", "2", "3", "4", "5", "6", "7", "8", "9"}

Range(s) == {s[i] : i \in DOMAIN s}

Sub(s, a, b) == [i \in 1..(b - a + 1) |-> s[a + i - 1]]

Drop(s, n) == Sub(s, n + 1, Len(s))

Take(s, n) == Sub(s, 1, n)

StartsWith(s, p) == Len(s) >= Len(p) /\ Take(s, Len(p)) = p

EndsWith(s, p) == Len(s) >= Len(p) /\ Drop(s, Len(s) - Len(p)) = p

\* str.find(p): the least start index (1-based) of p in s, 0 when absent
Find(s, p) ==
    LET hits == {i \in 1..(Len(s) - Len(p) + 1) : Sub(s, i, i + Len(p) - 1) = p}
    IN  IF hits = {} THEN 0 ELSE CHOOSE i \in hits : \A j \in hits : i <= j

Contains(s, p) == Find(s, p) > 0

\* str.strip(chars): drop leading and trailing characters of the set
StripChars(s, chars) ==
    LET keep == {i \in DOMAIN s : s[i] \notin chars}
    IN  IF keep = {} THEN <<>>
        ELSE LET lo == CHOOSE i \in keep : \A j \in keep : i <= j
                 hi == CHOOSE i \in keep : \A j \in keep : i >= j
             IN  Sub(s, lo, hi)

Strip(s) == StripChars(s, Whitespace)

\* str.split(sep, 1) for a one-character separator that occurs in s
SplitOnce(s, sep) ==
    LET i == Find(s, <<sep>>)
    IN  IF i = 0 THEN <<s>> ELSE <<Take(s, i - 1), Drop(s, i)>>

\* str.split(sep) for a one-character separator
RECURSIVE Split(_, _)
Split(s, sep) ==
    LET i == Find(s, <<sep>>)
    IN  IF i = 0 THEN <<s>> ELSE <<Take(s, i - 1)>> \o Split(Drop(s, i), sep)

(***************************************************************************)
(* The depth-aware tokenizer, _extract_body_structure lines 418-458.       *)
(* string_delimiter None is the empty string.                              *)
(***************************************************************************)
TokStart ==
    [tokens |-> <<>>, current_token |-> <<>>, in_string |-> FALSE,
     string_delimiter |-> "", bracket_depth |-> 0, array_depth |-> 0]

\* TokStep without the depth counters in the condition of the split
TokStepFlat(st, char) ==
    IF char \in {"\"", "'"} /\ (~st.in_string \/ char = st.string_delimiter)
    THEN IF st.in_string
         THEN [st EXCEPT !.in_string = FALSE, !.string_delimiter = "",
                         !.current_token = Append(@, char)]
         ELSE [st EXCEPT !.in_string = TRUE, !.string_delimiter = char,
                         !.current_token = Append(@, char)]
    ELSE IF char = "{"
    THEN [st EXCEPT !.bracket_depth = @ + 1, !.current_token = Append(@, char)]
    ELSE IF char = "}"
    THEN [st EXCEPT !.bracket_depth = @ - 1, !.current_token = Append(@, char)]
    ELSE IF char = "["
    THEN [st EXCEPT !.array_depth = @ + 1, !.current_token = Append(@, char)]
    ELSE IF char = "]"
    THEN [st EXCEPT !.array_depth = @ - 1, !.current_token = Append(@, char)]
    ELSE IF char = "," /\ ~st.in_string
    THEN [st EXCEPT !.tokens = Append(@, Strip(st.current_token)),
                    !.current_token = <<>>]
    ELSE [st EXCEPT !.current_token = Append(@, char)]

TokStep(st, char) ==
    IF char \in {"\"", "'"} /\ (~st.in_string \/ char = st.string_delimiter)
    THEN IF st.in_string
         THEN [st EXCEPT !.in_string = FALSE, !.string_delimiter = "",
                         !.current_token = Append(@, char)]
         ELSE [st EXCEPT !.in_string = TRUE, !.string_delimiter = char,
                         !.current_token = Append(@, char)]
    ELSE IF char = "{"
    THEN [st EXCEPT !.bracket_depth = @ + 1, !.current_token = Append(@, char)]
    ELSE IF char = "}"
    THEN [st EXCEPT !.bracket_depth = @ - 1, !.current_token = Append(@, char)]
    ELSE IF char = "["
    THEN [st EXCEPT !.array_depth = @ + 1, !.current_token = Append(@, char)]
    ELSE IF char = "]"
    THEN [st EXCEPT !.array_depth = @ - 1, !.current_token = Append(@, char)]
    ELSE IF char = "," /\ ~st.in_string /\ st.bracket_depth = 0
                       /\ st.array_depth = 0
    THEN [st EXCEPT !.tokens = Append(@, Strip(st.current_token)),
                    !.current_token = <<>>]
    ELSE [st EXCEPT !.current_token = Append(@, char)]

\* TokFlush without the last token
TokFlushNone(st) == st.tokens

\* lines 456-458: the last token, when not blank
TokFlush(st) ==
    IF Strip(st.current_token) # <<>>
    THEN Append(st.tokens, Strip(st.current_token))
    ELSE st.tokens

\* the loop over the first n characters of text
RECURSIVE TokScan(_, _)
TokScan(text, n) ==
    IF n = 0 THEN TokStart ELSE TokStep(TokScan(text, n - 1), text[n])

BodyTokens(content_inside) == TokFlush(TokScan(content_inside, Len(content_inside)))

(***************************************************************************)
(* _parse_array_items, lines 769-809.                                      *)
(***************************************************************************)
ArrayStart ==
    [items |-> <<>>, current_item |-> <<>>, in_string |-> FALSE,
     string_delimiter |-> "", bracket_depth |-> 0, brace_depth |-> 0]

\* ArrayStep splitting at the commas between braces too
ArrayStepNoBrace(st, char) ==
    IF char \in {"\"", "'"} /\ (~st.in_string \/ char = st.string_delimiter)
    THEN IF st.in_string
         THEN [st EXCEPT !.in_string = FALSE, !.string_delimiter = "",
                         !.current_item = Append(@, char)]
         ELSE [st EXCEPT !.in_string = TRUE, !.string_delimiter = char,
                         !.current_item = Append(@, char)]
    ELSE IF char = "{"
    THEN [st EXCEPT !.brace_depth = @ + 1, !.current_item = Append(@, char)]
    ELSE IF char = "}"
    THEN [st EXCEPT !.brace_depth = @ - 1, !.current_item = Append(@, char)]
    ELSE IF char = "["
    THEN [st EXCEPT !.bracket_depth = @ + 1, !.current_item = Append(@, char)]
    ELSE IF char = "]"
    THEN [st EXCEPT !.bracket_depth = @ - 1, !.current_item = Append(@, char)]
    ELSE IF char = "," /\ ~st.in_string /\ st.bracket_depth = 0
    THEN [st EXCEPT !.items = Append(@, Strip(st.current_item)),
                    !.current_item = <<>>]
    ELSE [st EXCEPT !.current_item = Append(@, char)]

ArrayStep(st, char) ==
    IF char \in {"\"", "'"} /\ (~st.in_string \/ char = st.string_delimiter)
    THEN IF st.in_string
         THEN [st EXCEPT !.in_string = FALSE, !.string_delimiter = "",
                         !.current_item = Append(@, char)]
         ELSE [st EXCEPT !.in_string = TRUE, !.string_delimiter = char,
                         !.current_item = Append(@, char)]
    ELSE IF char = "{"
    THEN [st EXCEPT !.brace_depth = @ + 1, !.current_item = Append(@, char)]
    ELSE IF char = "}"
    THEN [st EXCEPT !.brace_depth = @ - 1, !.current_item = Append(@, char)]
    ELSE IF char = "["
    THEN [st EXCEPT !.bracket_depth = @ + 1, !.current_item = Append(@, char)]
    ELSE IF char = "]"
    THEN [st EXCEPT !.bracket_depth = @ - 1, !.current_item = Append(@, char)]
    ELSE IF char = "," /\ ~st.in_string /\ st.bracket_depth = 0
                       /\ st.brace_depth = 0
    THEN [st EXCEPT !.items = Append(@, Strip(st.current_item)),
                    !.current_item = <<>>]
    ELSE [st EXCEPT !.current_item = Append(@, char)]

\* the loop over the first n characters of text
RECURSIVE ArrayScan(_, _)
ArrayScan(text, n) ==
    IF n = 0 THEN ArrayStart ELSE ArrayStep(ArrayScan(text, n - 1), text[n])

_parse_array_items(array_content) ==
    LET st == ArrayScan(array_content, Len(array_content))
    IN  IF Strip(st.current_item) # <<>>
        THEN Append(st.items, Strip(st.current_item))
        ELSE st.items

(***************************************************************************)
(* Values of the example field.  A Python str is Str(text), a bool is      *)
(* Bool(b), an int is Int_(n) and a float with mantissa m and k decimals   *)
(* (trailing zeros dropped) is Float(m, k).                                *)
(***************************************************************************)
Str(text) == [t |-> "str", s |-> text, n |-> 0, d |-> 0]

Bool(b) == [t |-> "bool", s |-> <<>>, n |-> IF b THEN 1 ELSE 0, d |-> 0]

Int_(n) == [t |-> "int", s |-> <<>>, n |-> n, d |-> 0]

RECURSIVE Float(_, _)
Float(m, k) ==
    IF k > 0 /\ m % 10 = 0 THEN Float(m \div 10, k - 1)
    ELSE [t |-> "float", s |-> <<>>, n |-> m, d |-> k]

True_ == <<"t", "r", "u", "e">>

False_ == <<"f", "a", "l", "s", "e">>

DigitVal(c) == CHOOSE v \in 0..9 : <<"0", "1", "2", "3", "4", "5", "6", "7", "8", "9">>[v + 1] = c

RECURSIVE DigitsVal(_)
DigitsVal(s) ==
    IF s = <<>> THEN 0 ELSE 10 * DigitsVal(Take(s, Len(s) - 1)) + DigitVal(s[Len(s)])

IsDigits(s) == s # <<>> /\ Range(s) \subseteq Digits

\* re.match(r'^-?\d+(\.\d+)?$', value), with value.isdigit()
IsNumber(value) ==
    LET body == IF StartsWith(value, <<"-">>) THEN Drop(value, 1) ELSE value
        parts == SplitOnce(body, ".")
    IN  \/ IsDigits(body)
        \/ Len(parts) = 2 /\ IsDigits(parts[1]) /\ IsDigits(parts[2])

\* float(value) if '.' in value else int(value)
NumberOf(value) ==
    LET neg == StartsWith(value, <<"-">>)
        body == IF neg THEN Drop(value, 1) ELSE value
        parts == SplitOnce(body, ".")
        sign == IF neg THEN -1 ELSE 1
    IN  IF Len(parts) = 2
        THEN Float(sign * DigitsVal(parts[1] \o parts[2]), Len(parts[2]))
        ELSE Int_(sign * DigitsVal(body))

Quotes == {"'", "\""}

\* a key with its surrounding quotes removed, lines 466-468 and 861-863
CleanKey(raw) ==
    LET key == Strip(raw)
    IN  IF \/ StartsWith(key, <<"\"">>) /\ EndsWith(key, <<"\"">>)
           \/ StartsWith(key, <<"'">>) /\ EndsWith(key, <<"'">>)
        THEN Sub(key, 2, Len(key) - 1)
        ELSE key

\* dict[key] = value
Put(dict, key, value) ==
    [k \in DOMAIN dict \cup {key} |-> IF k = key THEN value ELSE dict[k]]

EmptyDict == [k \in {} |-> {}]

(***************************************************************************)
(* _extract_nested_object_properties, lines 811-887.                       *)
(***************************************************************************)
NestedStart ==
    [tokens |-> <<>>, current_token |-> <<>>, in_string |-> FALSE,
     string_delimiter |-> "", bracket_depth |-> 0, brace_depth |-> 0]

NestedStep(st, char) ==
    IF char \in {"\"", "'"} /\ (~st.in_string \/ char = st.string_delimiter)
    THEN IF st.in_string
         THEN [st EXCEPT !.in_string = FALSE, !.string_delimiter = "",
                         !.current_token = Append(@, char)]
         ELSE [st EXCEPT !.in_string = TRUE, !.string_delimiter = char,
                         !.current_token = Append(@, char)]
    ELSE IF char = "{"
    THEN [st EXCEPT !.brace_depth = @ + 1, !.current_token = Append(@, char)]
    ELSE IF char = "}"
    THEN [st EXCEPT !.brace_depth = @ - 1, !.current_token = Append(@, char)]
    ELSE IF char = "["
    THEN [st EXCEPT !.bracket_depth = @ + 1, !.current_token = Append(@, char)]
    ELSE IF char = "]"
    THEN [st EXCEPT !.bracket_depth = @ - 1, !.current_token = Append(@, char)]
    ELSE IF char = "," /\ ~st.in_string /\ st.bracket_depth = 0
                       /\ st.brace_depth = 0
    THEN [st EXCEPT !.tokens = Append(@, Strip(st.current_token)),
                    !.current_token = <<>>]
    ELSE [st EXCEPT !.current_token = Append(@, char)]

\* the loop over the first n characters of text
RECURSIVE NestedScan(_, _)
NestedScan(text, n) ==
    IF n = 0 THEN NestedStart ELSE NestedStep(NestedScan(text, n - 1), text[n])

NestedTokens(object_content) ==
    LET st == NestedScan(object_content, Len(object_content))
    IN  IF Strip(st.current_token) # <<>>
        THEN Append(st.tokens, Strip(st.current_token))
        ELSE st.tokens

\* a nested classification that knows no number
NestedShapeNoNumber(raw) ==
    LET value == Strip(raw)
    IN  IF value \in {True_, False_}
        THEN [type |-> "boolean", example |-> Str(value)]
        ELSE IF StartsWith(value, <<"[">>) /\ EndsWith(value, <<"]">>)
        THEN [type |-> "array", example |-> Str(value)]
        ELSE IF StartsWith(value, <<"{">>) /\ EndsWith(value, <<"}">>)
        THEN [type |-> "object", example |-> Str(value)]
        ELSE IF StartsWith(value, <<"\"">>) \/ StartsWith(value, <<"'">>)
        THEN [type |-> "string", example |-> Str(StripChars(value, Quotes))]
        ELSE [type |-> "string", example |-> Str(value)]

\* lines 866-883: the descriptor of one nested value
NestedShape(raw) ==
    LET value == Strip(raw)
    IN  IF value \in {True_, False_}
        THEN [type |-> "boolean", example |-> Str(value)]
        ELSE IF IsNumber(value)
        THEN [type |-> "number", example |-> Str(value)]
        ELSE IF StartsWith(value, <<"[">>) /\ EndsWith(value, <<"]">>)
        THEN [type |-> "array", example |-> Str(value)]
        ELSE IF StartsWith(value, <<"{">>) /\ EndsWith(value, <<"}">>)
        THEN [type |-> "object", example |-> Str(value)]
        ELSE IF StartsWith(value, <<"\"">>) \/ StartsWith(value, <<"'">>)
        THEN [type |-> "string", example |-> Str(StripChars(value, Quotes))]
        ELSE [type |-> "string", example |-> Str(value)]

\* lines 857-887: the tokens from the i-th on, written into properties
RECURSIVE NestedProps(_, _, _)
NestedProps(tokens, i, properties) ==
    IF i > Len(tokens) THEN properties
    ELSE LET token == tokens[i]
             kv == SplitOnce(token, ":")
         IN  IF Contains(token, <<":">>)
             THEN NestedProps(tokens, i + 1,
                              Put(properties, CleanKey(kv[1]), NestedShape(kv[2])))
             ELSE NestedProps(tokens, i + 1, properties)

_extract_nested_object_properties(object_str, properties) ==
    IF StartsWith(object_str, <<"{">>) /\ EndsWith(object_str, <<"}">>)
    THEN NestedProps(NestedTokens(Strip(Sub(object_str, 2, Len(object_str) - 1))),
                     1, properties)
    ELSE properties

(***************************************************************************)
(* _extract_body_structure, lines 395-541: from the text of an object      *)
(* literal to its properties.                                              *)
(***************************************************************************)
IsoDate ==
    <<"2", "0", "2", "3", "-", "0", "1", "-", "0", "1", "T",
      "0", "0", ":", "0", "0", ":", "0", "0", "Z">>

\* lines 486-498: the type of an array's items, from its first item
ItemsType(value) ==
    LET array_content == Strip(Sub(value, 2, Len(value) - 1))
        array_items == _parse_array_items(array_content)
    IN  IF array_content = <<>> \/ array_items = <<>> THEN "string"
        ELSE LET sample_item == array_items[1]
             IN  IF IsNumber(sample_item) THEN "number"
                 ELSE IF sample_item \in {True_, False_} THEN "boolean"
                 ELSE IF StartsWith(sample_item, <<"{">>)
                         /\ EndsWith(sample_item, <<"}">>) THEN "object"
                 ELSE "string"

\* Shape classifying the value after removing its quotes, with the cases of
\* the booleans, the numbers, the arrays and the objects only
ShapeUnquoted(raw) ==
    LET value == StripChars(Strip(raw), Quotes)
    IN  IF value \in {True_, False_}
        THEN [type |-> "boolean", example |-> Bool(value = True_)]
        ELSE IF IsNumber(value)
        THEN [type |-> "number", example |-> NumberOf(value)]
        ELSE IF StartsWith(value, <<"[">>) /\ EndsWith(value, <<"]">>)
        THEN [type |-> "array", example |-> Str(value),
              items |-> [type |-> ItemsType(value)]]
        ELSE IF StartsWith(value, <<"{">>) /\ EndsWith(value, <<"}">>)
        THEN [type |-> "object", example |-> Str(value)]
        ELSE [type |-> "string", example |-> Str(value)]

\* lines 471-530: the descriptor of one top-level value
Shape(raw) ==
    LET value == Strip(raw)
    IN  IF value \in {True_, False_}
        THEN [type |-> "boolean", example |-> Bool(value = True_)]
        ELSE IF IsNumber(value)
        THEN [type |-> "number", example |-> NumberOf(value)]
        ELSE IF StartsWith(value, <<"[">>) /\ EndsWith(value, <<"]">>)
        THEN [type |-> "array", example |-> Str(value),
              items |-> [type |-> ItemsType(value)]]
        ELSE IF StartsWith(value, <<"{">>) /\ EndsWith(value, <<"}">>)
        THEN LET nested_properties ==
                     _extract_nested_object_properties(value, EmptyDict)
             IN  IF DOMAIN nested_properties # {}
                 THEN [type |-> "object", example |-> Str(value),
                       properties |-> nested_properties]
                 ELSE [type |-> "object", example |-> Str(value)]
        ELSE IF StartsWith(value, <<"\"">>) \/ StartsWith(value, <<"'">>)
        THEN [type |-> "string", example |-> Str(StripChars(value, Quotes))]
        ELSE IF StartsWith(value, <<"n", "e", "w", " ">>)
                /\ Contains(value, <<"D", "a", "t", "e">>)
        THEN [type |-> "string", example |-> Str(IsoDate)]
        ELSE [type |-> "string", example |-> Str(value)]

\* BodyProps giving up at the first token without a colon
RECURSIVE BodyPropsAbort(_, _, _)
BodyPropsAbort(tokens, i, properties) ==
    IF i > Len(tokens) THEN properties
    ELSE LET token == tokens[i]
             kv == SplitOnce(token, ":")
         IN  IF Contains(token, <<":">>)
             THEN BodyPropsAbort(tokens, i + 1,
                                 Put(properties, CleanKey(kv[1]), Shape(kv[2])))
             ELSE properties

\* lines 461-534: the tokens from the i-th on, written into properties
RECURSIVE BodyProps(_, _, _)
BodyProps(tokens, i, properties) ==
    IF i > Len(tokens) THEN properties
    ELSE LET token == tokens[i]
             kv == SplitOnce(token, ":")
         IN  IF Contains(token, <<":">>)
             THEN BodyProps(tokens, i + 1,
                            Put(properties, CleanKey(kv[1]), Shape(kv[2])))
             ELSE BodyProps(tokens, i + 1, properties)

emptyObject == <<"e", "m", "p", "t", "y", "O", "b", "j", "e", "c", "t">>

\* Properties without the sentinel of lines 411-416: nothing is found in a
\* blank object literal
PropertiesNoSentinel(raw) ==
    LET body_content == Strip(raw)
    IN  IF ~StartsWith(body_content, <<"{">>) \/ ~EndsWith(body_content, <<"}">>)
        THEN EmptyDict
        ELSE LET content_inside == Strip(Sub(body_content, 2, Len(body_content) - 1))
             IN  IF content_inside = <<>>
                 THEN EmptyDict
                 ELSE BodyProps(BodyTokens(content_inside), 1, EmptyDict)

\* lines 399-534: the properties found in body_content; EmptyDict too when
\* body_content is no object literal (the early return of line 403)
Properties(raw) ==
    LET body_content == Strip(raw)
    IN  IF ~StartsWith(body_content, <<"{">>) \/ ~EndsWith(body_content, <<"}">>)
        THEN EmptyDict
        ELSE LET content_inside == Strip(Sub(body_content, 2, Len(body_content) - 1))
             IN  IF content_inside = <<>>
                 THEN Put(EmptyDict, emptyObject,
                          [type |-> "object", example |-> Str(<<"{", "}">>)])
                 ELSE BodyProps(BodyTokens(content_inside), 1, EmptyDict)

\* lines 538-541
BodyStructure(properties) ==
    [contentType |-> "application/json", properties |-> properties]

(***************************************************************************)
(* _compare_body_structures, lines 629-654.  dict.get gives "None" for a   *)
(* missing key.                                                            *)
(***************************************************************************)
Get(dict, key) == IF key \in DOMAIN dict THEN dict[key] ELSE "None"

GetProperties(body) ==
    IF "properties" \in DOMAIN body THEN body.properties ELSE EmptyDict

\* _compare_body_structures comparing the whole description of a property
CompareDescriptions(body1, body2) ==
    LET props1 == GetProperties(body1)
        props2 == GetProperties(body2)
    IN  IF Get(body1, "contentType") # Get(body2, "contentType") THEN FALSE
        ELSE IF (DOMAIN props1 # {}) # (DOMAIN props2 # {}) THEN FALSE
        ELSE IF DOMAIN props1 # DOMAIN props2 THEN FALSE
        ELSE \A key \in DOMAIN props1 : props1[key] = props2[key]

_compare_body_structures(body1, body2) ==
    LET props1 == GetProperties(body1)
        props2 == GetProperties(body2)
    IN  IF Get(body1, "contentType") # Get(body2, "contentType") THEN FALSE
        ELSE IF (DOMAIN props1 # {}) # (DOMAIN props2 # {}) THEN FALSE
        ELSE IF DOMAIN props1 # DOMAIN props2 THEN FALSE
        ELSE \A key \in DOMAIN props1 :
                 Get(props1[key], "type") = Get(props2[key], "type")

(***************************************************************************)
(* Character codes, for str.lower, str.upper, urllib's unquote and the     *)
(* order of text.  Ascii[i] is the character of code 31 + i.               *)
(***************************************************************************)
\* the grave accent that delimits a template literal (written as a name,
\* for a string of this language cannot hold that character)
Backtick == "BACKTICK"

Ascii ==
    <<" ", "!", "\"", "#", "$", "%", "&", "'", "(", ")", "*", "+", ",", "-", ".", "/", "0", "1", "2", "3", "4", "5", "6", "7",
      "8", "9", ":", ";", "<", "=", ">", "?", "@", "A", "B", "C", "D", "E", "F", "G", "H", "I", "J", "K", "L", "M", "N", "O",
      "P", "Q", "R", "S", "T", "U", "V", "W", "X", "Y", "Z", "[", "\\", "]", "^", "_", Backtick, "a", "b", "c", "d", "e", "f", "g",
      "h", "i", "j", "k", "l", "m", "n", "o", "p", "q", "r", "s", "t", "u", "v", "w", "x", "y", "z", "{", "|", "}", "~">>

Ord(c) ==
    IF c = "\t" THEN 9
    ELSE IF c = "\n" THEN 10
    ELSE IF c \in Range(Ascii) THEN 31 + (CHOOSE i \in DOMAIN Ascii : Ascii[i] = c)
    ELSE 0

Chr(n) == Ascii[n - 31]

IsUpper(c) == c \in Range(Ascii) /\ Ord(c) >= 65 /\ Ord(c) <= 90

IsLower(c) == c \in Range(Ascii) /\ Ord(c) >= 97 /\ Ord(c) <= 122

Lower(s) == [i \in DOMAIN s |-> IF IsUpper(s[i]) THEN Chr(Ord(s[i]) + 32) ELSE s[i]]

Upper(s) == [i \in DOMAIN s |-> IF IsLower(s[i]) THEN Chr(Ord(s[i]) - 32) ELSE s[i]]

\* \w of the re module
IsWord(c) == c \in Digits \/ c = "_" \/ IsUpper(c) \/ IsLower(c)

HexDigits == <<"0", "1", "2", "3", "4", "5", "6", "7", "8", "9",
               "a", "b", "c", "d", "e", "f">>

IsHex(c) == Lower(<<c>>)[1] \in Range(HexDigits)

HexVal(c) == (CHOOSE i \in DOMAIN HexDigits : HexDigits[i] = Lower(<<c>>)[1]) - 1

\* urllib.parse.unquote, for escapes of printable ASCII characters
RECURSIVE unquote(_)
unquote(s) ==
    IF s = <<>> THEN <<>>
    ELSE IF /\ s[1] = "%" /\ Len(s) >= 3 /\ IsHex(s[2]) /\ IsHex(s[3])
            /\ 16 * HexVal(s[2]) + HexVal(s[3]) \in 32..126
    THEN <<Chr(16 * HexVal(s[2]) + HexVal(s[3]))>> \o unquote(Drop(s, 3))
    ELSE <<s[1]>> \o unquote(Drop(s, 1))

(***************************************************************************)
(* The endpoint records, __init__ lines 16-28.  backend_endpoints is a     *)
(* defaultdict: reading a key that is absent creates its record.           *)
(***************************************************************************)
NewRecord ==
    [files |-> {}, params |-> EmptyDict, template_params |-> {},
     dynamic_patterns |-> {}, http_methods |-> {}, request_bodies |-> <<>>,
     responses |-> <<>>]

\* self.results['backend_endpoints'][endpoint]
Touch(eps, endpoint) ==
    IF endpoint \in DOMAIN eps THEN eps ELSE Put(eps, endpoint, NewRecord)

\* AddFile assigning the set instead of adding to it
AddFileAssign(eps, endpoint, filename) ==
    [Touch(eps, endpoint) EXCEPT ![endpoint].files = {filename}]

\* [endpoint]['files'].add(filename)
AddFile(eps, endpoint, filename) ==
    [Touch(eps, endpoint) EXCEPT ![endpoint].files = @ \cup {filename}]

\* AddParam keeping the last value only
AddParamAssign(eps, endpoint, param, value) ==
    LET old == Touch(eps, endpoint)[endpoint].params
    IN  [Touch(eps, endpoint) EXCEPT ![endpoint].params = Put(old, param, {value})]

\* [endpoint]['params'][param].add(value); params is a defaultdict(set)
AddParam(eps, endpoint, param, value) ==
    LET old == Touch(eps, endpoint)[endpoint].params
        values == IF param \in DOMAIN old THEN old[param] ELSE {}
    IN  [Touch(eps, endpoint) EXCEPT
            ![endpoint].params = Put(old, param, values \cup {value})]

\* AddTemplateParam keeping the variable observed last only
AddTemplateParamAssign(eps, endpoint, var) ==
    [Touch(eps, endpoint) EXCEPT ![endpoint].template_params = {var}]

\* [endpoint]['template_params'].add(var)
AddTemplateParam(eps, endpoint, var) ==
    [Touch(eps, endpoint) EXCEPT ![endpoint].template_params = @ \cup {var}]

dynamic == <<"=", "d", "y", "n", "a", "m", "i", "c">>

\* [endpoint]['dynamic_patterns'].add(f"{key}=dynamic")
AddDynamicPattern(eps, endpoint, key) ==
    [Touch(eps, endpoint) EXCEPT
        ![endpoint].dynamic_patterns = @ \cup {key \o dynamic}]

\* AddMethod when the records of the defaultdict share one set of methods
AddMethodShared(eps, endpoint, http_method) ==
    [e \in DOMAIN Touch(eps, endpoint) |->
        [Touch(eps, endpoint)[e] EXCEPT !.http_methods = @ \cup {http_method}]]

\* [endpoint]['http_methods'].add(http_method)
AddMethod(eps, endpoint, http_method) ==
    [Touch(eps, endpoint) EXCEPT ![endpoint].http_methods = @ \cup {http_method}]

\* Exists looking at the body stored first only
ExistsFirst(request_bodies, body_structure) ==
    /\ request_bodies # <<>>
    /\ _compare_body_structures(request_bodies[1], body_structure)

\* lines 543-548: an equivalent body is stored already
Exists(request_bodies, body_structure) ==
    \E i \in DOMAIN request_bodies :
        _compare_body_structures(request_bodies[i], body_structure)

\* a test that every dictionary passes
TruthAlways(properties) == TRUE

\* the truth of a dictionary, as tested by if properties: of line 537
Truth(properties) == DOMAIN properties # {}

\* AddBody without the search for an equivalent body
AddBodyAlways(eps, endpoint, body_content) ==
    LET properties == Properties(body_content)
        body_structure == BodyStructure(properties)
        touched == Touch(eps, endpoint)
    IN  IF DOMAIN properties = {} THEN eps
        ELSE [touched EXCEPT
                 ![endpoint].request_bodies = Append(@, body_structure)]

\* _extract_body_structure(endpoint, body_content), lines 536-553
AddBody(eps, endpoint, body_content) ==
    LET properties == Properties(body_content)
        body_structure == BodyStructure(properties)
        touched == Touch(eps, endpoint)
    IN  IF ~Truth(properties) THEN eps
        ELSE IF Exists(touched[endpoint].request_bodies, body_structure)
        THEN touched
        ELSE [touched EXCEPT
                 ![endpoint].request_bodies = Append(@, body_structure)]

(***************************************************************************)
(* One observation is a record: its kind, its endpoint key, and its one    *)
(* or two arguments.                                                       *)
(***************************************************************************)
Fact(kind, endpoint, a, b) == [kind |-> kind, endpoint |-> endpoint, a |-> a, b |-> b]

FileFact(endpoint, filename) == Fact("file", endpoint, filename, <<>>)

ParamFact(endpoint, param, value) == Fact("param", endpoint, param, value)

TemplateFact(endpoint, var) == Fact("template", endpoint, var, <<>>)

DynamicFact(endpoint, key) == Fact("dynamic", endpoint, key, <<>>)

MethodFact(endpoint, http_method) == Fact("method", endpoint, http_method, <<>>)

BodyFact(endpoint, body_content) == Fact("body", endpoint, body_content, <<>>)

\* Apply keeping, of equivalent bodies, the one observed last
ApplyLatestBody(eps, f) ==
    CASE f.kind = "file" -> AddFile(eps, f.endpoint, f.a)
      [] f.kind = "param" -> AddParam(eps, f.endpoint, f.a, f.b)
      [] f.kind = "template" -> AddTemplateParam(eps, f.endpoint, f.a)
      [] f.kind = "dynamic" -> AddDynamicPattern(eps, f.endpoint, f.a)
      [] f.kind = "method" -> AddMethod(eps, f.endpoint, f.a)
      [] f.kind = "body" ->
             LET body_structure == BodyStructure(Properties(f.a))
                 Other(stored) == ~_compare_body_structures(stored, body_structure)
             IN  IF DOMAIN body_structure.properties = {} THEN eps
                 ELSE [Touch(eps, f.endpoint) EXCEPT
                          ![f.endpoint].request_bodies =
                              Append(SelectSeq(@, Other), body_structure)]

Apply(eps, f) ==
    CASE f.kind = "file" -> AddFile(eps, f.endpoint, f.a)
      [] f.kind = "param" -> AddParam(eps, f.endpoint, f.a, f.b)
      [] f.kind = "template" -> AddTemplateParam(eps, f.endpoint, f.a)
      [] f.kind = "dynamic" -> AddDynamicPattern(eps, f.endpoint, f.a)
      [] f.kind = "method" -> AddMethod(eps, f.endpoint, f.a)
      [] f.kind = "body" -> AddBody(eps, f.endpoint, f.a)

(***************************************************************************)
(* _prepare_for_serialization, lines 44-57.  list(set) gives the elements  *)
(* in the order of the set's hash table, which the content of the set and  *)
(* the hash seed of the process decide: ascending text under seed 0,       *)
(* descending under seed 1.                                                *)
(***************************************************************************)
HashSeeds == {0, 1}

TextLess(x, y) ==
    \E i \in 1..(Len(x) + 1) :
        /\ i <= Len(y)
        /\ \A j \in 1..(i - 1) : x[j] = y[j]
        /\ i = Len(x) + 1 \/ Ord(x[i]) < Ord(y[i])

Before(x, y, hash_seed) == IF hash_seed = 0 THEN TextLess(x, y) ELSE TextLess(y, x)

RECURSIVE list(_, _)
list(set, hash_seed) ==
    IF set = {} THEN <<>>
    ELSE LET x == CHOOSE x \in set : \A y \in set \ {x} : Before(x, y, hash_seed)
         IN  <<x>> \o list(set \ {x}, hash_seed)

GET == <<"G", "E", "T">>

\* _prepare_for_serialization listing GET whatever was recorded
SerializeWithGet(eps, hash_seed) ==
    [backend_endpoints |->
        [endpoint \in DOMAIN eps |->
            LET data == eps[endpoint]
            IN  [files |-> list(data.files, hash_seed),
                 params |-> [k \in DOMAIN data.params |->
                                list(data.params[k], hash_seed)],
                 template_params |-> list(data.template_params, hash_seed),
                 dynamic_patterns |-> list(data.dynamic_patterns, hash_seed),
                 http_methods |-> list(data.http_methods \cup {GET}, hash_seed),
                 request_bodies |-> data.request_bodies,
                 responses |-> data.responses]]]

_prepare_for_serialization(eps, hash_seed) ==
    [backend_endpoints |->
        [endpoint \in DOMAIN eps |->
            LET data == eps[endpoint]
            IN  [files |-> list(data.files, hash_seed),
                 params |-> [k \in DOMAIN data.params |->
                                list(data.params[k], hash_seed)],
                 template_params |-> list(data.template_params, hash_seed),
                 dynamic_patterns |-> list(data.dynamic_patterns, hash_seed),
                 http_methods |-> IF data.http_methods # {}
                                  THEN list(data.http_methods, hash_seed)
                                  ELSE <<GET>>,
                 request_bodies |-> data.request_bodies,
                 responses |-> data.responses]]]

(***************************************************************************)
(* The content of a file is the sequence of the places its scanners match, *)
(* in source order.  A place is a quoted literal with what the regular     *)
(* expressions of the scanners capture around it:                          *)
(*   kind    "string" (a literal by itself), "axios", "instance" (a call   *)
(*           on a variable that the file assigns from axios), "fetch", or  *)
(*           "new URL"                                                     *)
(*   ctx     the text before the opening quote (at most 30 characters)     *)
(*   q       the quote character                                           *)
(*   text    the literal between the quotes (it holds no quote character)  *)
(*   verb    axios, instance: the method name of the call; fetch: the      *)
(*           text of the method: option, None when there is none           *)
(*   found   _process_api_call_with_params finds a closing parenthesis     *)
(*   params  the object literal after params:, None when there is none     *)
(*   bodies  the texts the searches of lines 349-393 find, in order; they   *)
(*           are handed to _extract_body_structure when the method is one  *)
(*           of line 335                                                   *)
(*   sets    new URL: the <<name, value>> of the searchParams calls found  *)
(*   terminated  new URL: a ; or } follows                                 *)
(***************************************************************************)
AnyQuote == {"'", "\"", Backtick}

api == <<"/", "a", "p", "i", "/">>

RECURSIVE Concat(_)
Concat(seqs) == IF seqs = <<>> THEN <<>> ELSE Head(seqs) \o Concat(Tail(seqs))

\* the greatest k with s[i..k] inside set (i - 1 when s[i] is not)
RunIn(s, i, set) ==
    CHOOSE k \in (i - 1)..Len(s) :
        /\ \A j \in i..k : s[j] \in set
        /\ k = Len(s) \/ s[k + 1] \notin set

\* the greatest k with s[i..k] outside set
RunNotIn(s, i, set) ==
    CHOOSE k \in (i - 1)..Len(s) :
        /\ \A j \in i..k : s[j] \notin set
        /\ k = Len(s) \/ s[k + 1] \in set

(***************************************************************************)
(* _parse_query_string, lines 656-668: the items of the dictionary, each   *)
(* key with each of its values, in the order of iteration.                 *)
(***************************************************************************)
QueryPair(param) ==
    IF Contains(param, <<"=">>)
    THEN <<SplitOnce(param, "=")[1], unquote(SplitOnce(param, "=")[2])>>
    ELSE <<param, None>>

RECURSIVE ByKey(_)
ByKey(pairs) ==
    IF pairs = <<>> THEN <<>>
    ELSE LET Same(p) == p[1] = pairs[1][1]
             Other(p) == p[1] # pairs[1][1]
         IN  SelectSeq(pairs, Same) \o ByKey(SelectSeq(pairs, Other))

_parse_query_string(query_string) ==
    LET parts == Split(query_string, "&")
    IN  ByKey([i \in DOMAIN parts |-> QueryPair(parts[i])])

(***************************************************************************)
(* _find_static_query_params, lines 74-96.                                 *)
(***************************************************************************)
\* ['"`]/api/[^'"`?]+\?([^'"`]+)['"`] matches the literal
StaticUrl(text) ==
    /\ StartsWith(text, api)
    /\ Find(text, <<"?">>) >= 7
    /\ Len(text) > Find(text, <<"?">>)

StaticMatches(content) ==
    SelectSeq(content, LAMBDA place : StaticUrl(place.text))

_find_static_query_params(content, filename) ==
    LET matches == StaticMatches(content)
        \* re.search over the whole content: the first URL of the file
        endpoint == SplitOnce(matches[1].text, "?")[1]
    IN  Concat([i \in DOMAIN matches |->
            LET params == _parse_query_string(SplitOnce(matches[i].text, "?")[2])
            IN  <<FileFact(endpoint, filename)>>
                \o [j \in DOMAIN params |->
                       ParamFact(endpoint, params[j][1], params[j][2])]])

(***************************************************************************)
(* _find_template_literal_params, lines 98-186.                            *)
(***************************************************************************)
\* \${[^}]+} at position i of t: the index of the closing brace, else 0
MarkerEnd(t, i) ==
    IF i + 1 <= Len(t) /\ t[i] = "$" /\ t[i + 1] = "{"
    THEN LET e == RunNotIn(t, i + 2, {"}"}) + 1
         IN  IF e <= Len(t) /\ e >= i + 3 THEN e ELSE 0
    ELSE 0

\* re.findall(r'\${([^}]+)}', t), from position i
RECURSIVE TemplateVars(_, _)
TemplateVars(t, i) ==
    IF i > Len(t) THEN <<>>
    ELSE IF MarkerEnd(t, i) > 0
    THEN <<Sub(t, i + 2, MarkerEnd(t, i) - 1)>> \o TemplateVars(t, MarkerEnd(t, i) + 1)
    ELSE TemplateVars(t, i + 1)

\* re.sub(r'\${[^}]+}', repl, t), from position i
RECURSIVE ReSub(_, _, _)
ReSub(repl, t, i) ==
    IF i > Len(t) THEN <<>>
    ELSE IF MarkerEnd(t, i) > 0
    THEN repl \o ReSub(repl, t, MarkerEnd(t, i) + 1)
    ELSE <<t[i]>> \o ReSub(repl, t, i + 1)

PARAM == <<"{", "P", "A", "R", "A", "M", "}">>

TEMPLATE_VAR == <<"T", "E", "M", "P", "L", "A", "T", "E", "_", "V", "A", "R">>

POST == <<"P", "O", "S", "T">>

PUT == <<"P", "U", "T">>

DELETE == <<"D", "E", "L", "E", "T", "E">>

PATCH == <<"P", "A", "T", "C", "H">>

\* lines 104-110, in the order of the dictionary
method_keywords == <<Lower(GET), Lower(POST), Lower(PUT), Lower(DELETE), Lower(PATCH)>>

\* lines 114-121
ContextMethod(ctx) ==
    LET context_before == Lower(Drop(ctx, IF Len(ctx) > 30 THEN Len(ctx) - 30 ELSE 0))
        found == {i \in DOMAIN method_keywords :
                      Contains(context_before, method_keywords[i])}
    IN  IF found = {} THEN GET
        ELSE Upper(method_keywords[CHOOSE i \in found : \A j \in found : i <= j])

\* TemplatePathFacts keeping the template as the key
TemplatePathFactsRaw(template_content, http_method, filename) ==
    LET base_path == Take(template_content, Find(template_content, <<"$", "{">>) - 1)
        normalized_endpoint == template_content
        template_vars == TemplateVars(template_content, 1)
    IN  IF /\ Contains(template_content, <<"$", "{">>)
           /\ Contains(template_content, <<"}">>)
           /\ StartsWith(base_path, api)
        THEN <<FileFact(normalized_endpoint, filename),
               MethodFact(normalized_endpoint, http_method)>>
             \o [i \in DOMAIN template_vars |->
                    TemplateFact(normalized_endpoint, template_vars[i])]
        ELSE <<>>

\* lines 123-148: a template whose path has dynamic parts
TemplatePathFacts(template_content, http_method, filename) ==
    LET base_path == Take(template_content, Find(template_content, <<"$", "{">>) - 1)
        normalized_endpoint == ReSub(PARAM, template_content, 1)
        template_vars == TemplateVars(template_content, 1)
    IN  IF /\ Contains(template_content, <<"$", "{">>)
           /\ Contains(template_content, <<"}">>)
           /\ StartsWith(base_path, api)
        THEN <<FileFact(normalized_endpoint, filename),
               MethodFact(normalized_endpoint, http_method)>>
             \o [i \in DOMAIN template_vars |->
                    TemplateFact(normalized_endpoint, template_vars[i])]
        ELSE <<>>

\* lines 174-184: one pair of the query string
TemplatePairFacts(endpoint, pair) ==
    IF Contains(pair, <<"=">>) /\ ~Contains(pair, TEMPLATE_VAR)
    THEN <<ParamFact(endpoint, SplitOnce(pair, "=")[1], SplitOnce(pair, "=")[2])>>
    ELSE IF Contains(pair, <<"=">>)
    THEN <<DynamicFact(endpoint, SplitOnce(pair, "=")[1])>>
    ELSE <<>>

\* lines 150-186: a template with a query string
TemplateQueryFacts(template_content, filename) ==
    LET endpoint == SplitOnce(template_content, "?")[1]
        query_template == SplitOnce(template_content, "?")[2]
        template_vars == TemplateVars(query_template, 1)
        param_pairs == Split(ReSub(TEMPLATE_VAR, query_template, 1), "&")
    IN  IF /\ Contains(template_content, api)
           /\ Contains(template_content, <<"?">>)
           /\ StartsWith(endpoint, api)
        THEN <<FileFact(endpoint, filename)>>
             \o (IF query_template # <<>>
                 THEN [i \in DOMAIN template_vars |->
                          TemplateFact(endpoint, template_vars[i])]
                      \o Concat([i \in DOMAIN param_pairs |->
                                    TemplatePairFacts(endpoint, param_pairs[i])])
                 ELSE <<>>)
        ELSE <<>>

\* `([^`]*?/api/[^`]*?)` matches the literal
TemplateLiteral(place) == place.q = Backtick /\ Contains(place.text, api)

_find_template_literal_params(content, filename) ==
    LET matches == SelectSeq(content, TemplateLiteral)
    IN  Concat([i \in DOMAIN matches |->
            TemplatePathFacts(matches[i].text, ContextMethod(matches[i].ctx), filename)
            \o TemplateQueryFacts(matches[i].text, filename)])

(***************************************************************************)
(* _find_search_params_usage, lines 188-223.                               *)
(***************************************************************************)
\* a value that is a string literal, lines 216-217 and 325-326
IsLiteral(value) ==
    \/ StartsWith(value, <<"'">>) /\ EndsWith(value, <<"'">>)
    \/ StartsWith(value, <<"\"">>) /\ EndsWith(value, <<"\"">>)

\* new URL\(['"](/api/[^'"]+)['"]\) matches the place
NewUrl(place) ==
    /\ place.kind = "new URL"
    /\ place.q \in {"'", "\""}
    /\ StartsWith(place.text, api) /\ Len(place.text) > Len(api)

SearchParamFact(endpoint, param_name, param_value) ==
    IF IsLiteral(param_value)
    THEN ParamFact(endpoint, param_name, StripChars(param_value, Quotes))
    ELSE DynamicFact(endpoint, param_name)

_find_search_params_usage(content, filename) ==
    LET matches == SelectSeq(content, NewUrl)
    IN  Concat([i \in DOMAIN matches |->
            LET endpoint == matches[i].text
                param_matches == matches[i].sets
            IN  IF matches[i].terminated /\ param_matches # <<>>
                THEN <<FileFact(endpoint, filename)>>
                     \o [j \in DOMAIN param_matches |->
                            SearchParamFact(endpoint, param_matches[j][1],
                                            param_matches[j][2])]
                ELSE <<>>])

(***************************************************************************)
(* _process_api_call_with_params, lines 281-393.                           *)
(***************************************************************************)
WordChars == {c \in Range(Ascii) : IsWord(c)}

\* re.findall(r'(\w+)\s*:\s*([^,}]+)', params_content) from position i, each
\* value stripped (lines 319-323)
RECURSIVE ParamPairs(_, _)
ParamPairs(params_content, i) ==
    IF i > Len(params_content) THEN <<>>
    ELSE LET word_end == RunIn(params_content, i, WordChars)
             colon == RunIn(params_content, word_end + 1, Whitespace) + 1
             value_end == RunNotIn(params_content, colon + 1, {",", "}"})
         IN  IF /\ word_end >= i
                /\ colon <= Len(params_content) /\ params_content[colon] = ":"
                /\ value_end > colon
             THEN <<<<Sub(params_content, i, word_end),
                      Strip(Sub(params_content, colon + 1, value_end))>>>>
                  \o ParamPairs(params_content, value_end + 1)
             ELSE ParamPairs(params_content, i + 1)

\* lines 321-332
CallParamFact(endpoint, key, value) ==
    IF IsLiteral(value)
    THEN ParamFact(endpoint, key, StripChars(value, Quotes))
    ELSE DynamicFact(endpoint, key)

\* _process_api_call_with_params handing on the bodies whatever the method
ProcessAnyMethod(place, endpoint, filename, http_method) ==
    LET param_pairs == ParamPairs(place.params, 1)
    IN  IF ~place.found THEN <<>>
        ELSE <<FileFact(endpoint, filename), MethodFact(endpoint, http_method)>>
             \o (IF place.params # None
                 THEN [i \in DOMAIN param_pairs |->
                          CallParamFact(endpoint, param_pairs[i][1], param_pairs[i][2])]
                 ELSE <<>>)
             \o [i \in DOMAIN place.bodies |-> BodyFact(endpoint, place.bodies[i])]

_process_api_call_with_params(place, endpoint, filename, http_method) ==
    LET param_pairs == ParamPairs(place.params, 1)
    IN  IF ~place.found THEN <<>>
        ELSE <<FileFact(endpoint, filename), MethodFact(endpoint, http_method)>>
             \o (IF place.params # None
                 THEN [i \in DOMAIN param_pairs |->
                          CallParamFact(endpoint, param_pairs[i][1], param_pairs[i][2])]
                 ELSE <<>>)
             \o (IF http_method \in {POST, PUT, PATCH}
                 THEN [i \in DOMAIN place.bodies |->
                          BodyFact(endpoint, place.bodies[i])]
                 ELSE <<>>)

(***************************************************************************)
(* _find_axios_fetch_params, lines 225-279.                                *)
(***************************************************************************)
\* ['"]([^'"]*/api/[^'"]+)['"] and ['"`]([^'"`]*/api/[^'"]+)['"`]
ApiLiteral(place, quotes) ==
    /\ place.q \in quotes
    /\ Contains(place.text, api)
    /\ Find(place.text, api) + Len(api) <= Len(place.text)

\* lines 240-241
Rooted(endpoint) ==
    IF StartsWith(endpoint, <<"/">>) THEN endpoint ELSE <<"/">> \o endpoint

_find_axios_fetch_params(content, filename) ==
    LET axios == SelectSeq(content,
                     LAMBDA p : p.kind = "axios" /\ ApiLiteral(p, {"'", "\""}))
        instance == SelectSeq(content,
                        LAMBDA p : p.kind = "instance" /\ ApiLiteral(p, {"'", "\""}))
        fetch == SelectSeq(content,
                     LAMBDA p : p.kind = "fetch" /\ ApiLiteral(p, AnyQuote))
    IN  Concat([i \in DOMAIN axios |->
            _process_api_call_with_params(axios[i], Rooted(axios[i].text),
                                          filename, Upper(axios[i].verb))])
        \o Concat([i \in DOMAIN instance |->
            _process_api_call_with_params(instance[i], Rooted(instance[i].text),
                                          filename, Upper(instance[i].verb))])
        \o Concat([i \in DOMAIN fetch |->
            _process_api_call_with_params(fetch[i], Rooted(fetch[i].text), filename,
                IF fetch[i].verb # None THEN Upper(fetch[i].verb) ELSE GET)])

(***************************************************************************)
(* analyze_file, lines 59-72: the observations the four scanners make for  *)
(* one file, in the order they make them.                                  *)
(***************************************************************************)
\* analyze_file with scanners that record no file
FactsUnfiled(content, filename) ==
    SelectSeq(_find_static_query_params(content, filename)
              \o _find_template_literal_params(content, filename)
              \o _find_search_params_usage(content, filename)
              \o _find_axios_fetch_params(content, filename),
              LAMBDA f : f.kind # "file")

Facts(content, filename) ==
    _find_static_query_params(content, filename)
    \o _find_template_literal_params(content, filename)
    \o _find_search_params_usage(content, filename)
    \o _find_axios_fetch_params(content, filename)

(***************************************************************************)
(* The files of a run.  Each content is given with the JavaScript it       *)
(* stands for (<grave> is the grave accent).  ctx is written out for       *)
(* template literals only, the one place that reads it.                    *)
(***************************************************************************)
MaxFiles == 2

Literal(ctx, q, text) ==
    [kind |-> "string", ctx |-> ctx, q |-> q, text |-> text, verb |-> None,
     found |-> FALSE, params |-> None, bodies |-> <<>>, sets |-> <<>>,
     terminated |-> FALSE]

Call(kind, ctx, q, text, verb, found, params, bodies) ==
    [kind |-> kind, ctx |-> ctx, q |-> q, text |-> text, verb |-> verb,
     found |-> found, params |-> params, bodies |-> bodies, sets |-> <<>>,
     terminated |-> FALSE]

NewUrlCall(q, text, sets, terminated) ==
    [kind |-> "new URL", ctx |-> <<>>, q |-> q, text |-> text, verb |-> None,
     found |-> FALSE, params |-> None, bodies |-> <<>>, sets |-> sets,
     terminated |-> terminated]

\* const u = '/api/u?page=1';
static_page1 ==
    <<Literal(<<>>, "'",
          <<"/", "a", "p", "i", "/", "u", "?", "p", "a", "g", "e", "=", "1">>)>>

\* x('/api/u?page=2&q=a%41&debug'); y("/api/v?s=1")
static_two_urls ==
    <<Literal(<<>>, "'",
          <<"/", "a", "p", "i", "/", "u", "?", "p", "a", "g", "e", "=", "2", "&", "q", "=", "a", "%", "4", "1", "&", "d", "e", "b", "u", "g">>),
      Literal(<<>>, "\"", <<"/", "a", "p", "i", "/", "v", "?", "s", "=", "1">>)>>

\* load(<grave>/api/u/${userId}<grave>)
template_userId ==
    <<Literal(<<"l", "o", "a", "d", "(">>, Backtick,
          <<"/", "a", "p", "i", "/", "u", "/", "$", "{", "u", "s", "e", "r", "I", "d", "}">>)>>

\* axios.post(<grave>/api/u/${id}<grave>, d)
template_id_post ==
    <<Literal(<<"a", "x", "i", "o", "s", ".", "p", "o", "s", "t", "(">>, Backtick,
          <<"/", "a", "p", "i", "/", "u", "/", "$", "{", "i", "d", "}">>)>>

\* fetch(<grave>/api/u/${id}?page=1&s=${x}<grave>)
fetch_template_query ==
    <<Call("fetch", <<"f", "e", "t", "c", "h", "(">>, Backtick,
          <<"/", "a", "p", "i", "/", "u", "/", "$", "{", "i", "d", "}", "?", "p", "a", "g", "e", "=", "1", "&", "s", "=", "$", "{", "x", "}">>,
          None, TRUE, None, <<>>)>>

\* axios.post('/api/a', {name: 'x', n: 1})
axios_post_body ==
    <<Call("axios", <<>>, "'", <<"/", "a", "p", "i", "/", "a">>,
          <<"p", "o", "s", "t">>, TRUE, None,
          <<<<"{", "n", "a", "m", "e", ":", " ", "'", "x", "'", ",", " ", "n", ":", " ", "1", "}">>>>)>>

\* axios.post('/api/a', {name: 'y', n: 2}, {data: {n: 'z'}})
axios_post_same_shape ==
    <<Call("axios", <<>>, "'", <<"/", "a", "p", "i", "/", "a">>,
          <<"p", "o", "s", "t">>, TRUE, None,
          <<<<"{", "n", "a", "m", "e", ":", " ", "'", "y", "'", ",", " ", "n", ":", " ", "2", "}">>,
            <<"{", "n", ":", " ", "'", "z", "'", "}">>>>)>>

\* axios.put('/api/a', {n: '1'}, {data: {}})
axios_put_bodies ==
    <<Call("axios", <<>>, "'", <<"/", "a", "p", "i", "/", "a">>, <<"p", "u", "t">>,
          TRUE, None,
          <<<<"{", "n", ":", " ", "'", "1", "'", "}">>, <<"{", "}">>>>)>>

\* axios.get('/api/a', {params: {page: '1', q: query}})
axios_get_params ==
    <<Call("axios", <<>>, "'", <<"/", "a", "p", "i", "/", "a">>, <<"g", "e", "t">>,
          TRUE,
          <<"{", "p", "a", "g", "e", ":", " ", "'", "1", "'", ",", " ", "q", ":", " ", "q", "u", "e", "r", "y", "}">>,
          <<<<"{", "p", "a", "r", "a", "m", "s", ":", " ", "{", "p", "a", "g", "e", ":", " ", "'", "1", "'", ",", " ", "q", ":", " ", "q", "u", "e", "r", "y", "}", "}">>>>)>>

\* new URL('/api/s'); url.searchParams.set('k', 'v'); url.searchParams.append('d', x)
new_url ==
    <<NewUrlCall("'", <<"/", "a", "p", "i", "/", "s">>,
          <<<<<<"k">>, <<"'", "v", "'">>>>, <<<<"d">>, <<"x">>>>>>, TRUE)>>

\* fetch('/api/b', {method: 'post', body: JSON.stringify({a: true})})
fetch_post_body ==
    <<Call("fetch", <<>>, "'", <<"/", "a", "p", "i", "/", "b">>,
          <<"p", "o", "s", "t">>, TRUE, None,
          <<<<"{", "a", ":", " ", "t", "r", "u", "e", "}">>>>)>>

\* axios.patch('/api/c', { }, {data: {}})
axios_patch_blank ==
    <<Call("axios", <<>>, "'", <<"/", "a", "p", "i", "/", "c">>,
          <<"p", "a", "t", "c", "h">>, TRUE, None,
          <<<<"{", " ", "}">>, <<"{", "}">>>>)>>

\* axios.post('/api/d', {foo, bar})
axios_post_malformed ==
    <<Call("axios", <<>>, "'", <<"/", "a", "p", "i", "/", "d">>, <<"p", "o", "s", "t">>, TRUE, None,
          <<<<"{", "f", "o", "o", ",", " ", "b", "a", "r", "}">>>>)>>

Contents ==
    {axios_post_malformed,
     static_page1,
     static_two_urls,
     template_userId,
     template_id_post,
     fetch_template_query,
     axios_post_body,
     axios_post_same_shape,
     axios_put_bodies,
     axios_get_params,
     new_url,
     fetch_post_body,
     axios_patch_blank}

Filenames == {<<"a", ".", "j", "s">>, <<"b", ".", "j", "s">>}

(***************************************************************************)
(* The run: analyze_all_files hands file after file to analyze_file, which *)
(* makes the observations of the file one after the other.                 *)
(***************************************************************************)
NoFact == Fact("none", <<>>, <<>>, <<>>)

TokIdle == [content_inside |-> <<>>, pos |-> 0, st |-> TokStart, done |-> TRUE]

ExtIdle == [value |-> <<>>, parts |-> <<>>, body_content |-> <<>>,
            stage |-> "idle", properties |-> EmptyDict]

CallIdle == [content |-> <<>>, start_pos |-> 0, pos |-> 0, open_parens |-> 1,
             end_pos |-> -1, call_content |-> <<>>, params_match |-> FALSE,
             stage |-> "idle"]

NormIdle == [endpoint |-> <<>>, path |-> <<>>, path_params |-> <<>>,
             param_count |-> 1, stage |-> "idle"]

CmpIdle == [body1 |-> BodyStructure(EmptyDict), body2 |-> BodyStructure(EmptyDict),
            result |-> "idle"]

Init ==
    /\ endpoints = EmptyDict
    /\ queue = <<>>
    /\ n_files = 0
    /\ analysed = {}
    /\ seen = {}
    /\ last = [fact |-> NoFact, again |-> FALSE]
    /\ observed = <<>>
    /\ call = CallIdle
    /\ norm = NormIdle
    /\ tok = TokIdle
    /\ cmp = CmpIdle
    /\ ext = ExtIdle

\* analyze_file(filepath, filename) reads the file and starts its scanners
AnalyzeFile(content, filename) ==
    /\ queue = <<>>
    /\ n_files < MaxFiles
    /\ queue' = Facts(content, filename)
    /\ n_files' = n_files + 1
    /\ analysed' = analysed \cup {content}
    /\ UNCHANGED <<endpoints, seen, last, observed, tok, cmp, ext,
                   call, norm>>

\* the next observation of the file
Observe ==
    /\ queue # <<>>
    /\ endpoints' = Apply(endpoints, Head(queue))
    /\ queue' = Tail(queue)
    /\ seen' = seen \cup {Head(queue)}
    /\ last' = [fact |-> Head(queue), again |-> Head(queue) \in seen]
    /\ observed' = IF Head(queue).kind = "body"
                    THEN Append(observed, Head(queue)) ELSE observed
    /\ UNCHANGED <<n_files, analysed, tok, cmp, ext,
                   call, norm>>

Next ==
    \/ \E content \in Contents, filename \in Filenames : AnalyzeFile(content, filename)
    \/ Observe

Spec == Init /\ [][Next]_vars

(***************************************************************************)
(* The tokenizer loop by itself: one text, taken character by character    *)
(* (lines 426-454), then the last token (lines 456-458).                   *)
(***************************************************************************)
TokAlphabet == {",", "{", "}", "[", "]", "'", "\"", "\\", " ", "a"}

\* a: {x: 1, y: 2}, b: [1,2,3]
TokExample ==
    <<"a", ":", " ", "{", "x", ":", " ", "1", ",", " ", "y", ":", " ", "2", "}",
      ",", " ", "b", ":", " ", "[", "1", ",", "2", ",", "3", "]">>

\* a: 'it\'s, ok', b: 1
TokEscaped ==
    <<"a", ":", " ", "'", "i", "t", "\\", "'", "s",
      ",", " ", "o", "k", "'", ",", " ", "b", ":", " ", "1">>

TokInputs ==
    UNION {[1..k -> TokAlphabet] : k \in 0..MaxTokLen} \cup {TokExample, TokEscaped}

InitTok ==
    /\ endpoints = EmptyDict
    /\ queue = <<>>
    /\ n_files = 0
    /\ analysed = {}
    /\ seen = {}
    /\ last = [fact |-> NoFact, again |-> FALSE]
    /\ observed = <<>>
    /\ call = CallIdle
    /\ norm = NormIdle
    /\ ext = ExtIdle
    /\ tok \in {[content_inside |-> text, pos |-> 0, st |-> TokStart, done |-> FALSE] :
                    text \in TokInputs}
    /\ cmp = CmpIdle

\* one turn of the loop, for char in content_inside
TokChar ==
    /\ ~tok.done
    /\ tok.pos < Len(tok.content_inside)
    /\ tok' = [tok EXCEPT !.pos = @ + 1,
                          !.st = TokStep(@, tok.content_inside[tok.pos + 1])]
    /\ UNCHANGED <<endpoints, queue, n_files, analysed, seen, last, observed, cmp, ext,
                   call, norm>>

\* after the loop
TokEnd ==
    /\ ~tok.done
    /\ tok.pos = Len(tok.content_inside)
    /\ tok' = [tok EXCEPT !.done = TRUE, !.st.tokens = TokFlush(tok.st)]
    /\ UNCHANGED <<endpoints, queue, n_files, analysed, seen, last, observed, cmp, ext,
                   call, norm>>

NextTok == TokChar \/ TokEnd

SpecTok == InitTok /\ [][NextTok]_vars

\* the for loop and the statements after it run to their end
SpecTokFair == SpecTok /\ WF_vars(NextTok)

(***************************************************************************)
(* _compare_body_structures by itself, on two bodies.  The properties are  *)
(* those the extractor gives for a text (none for the text that is no      *)
(* object literal); the content type is the extractor's or another.        *)
(***************************************************************************)
CmpTexts ==
    {<<"x">>,
     <<"{", "}">>,
     <<"{", "a", ":", " ", "'", "x", "'", "}">>,
     <<"{", "a", ":", " ", "'", "y", "'", "}">>,
     <<"{", "a", ":", " ", "1", "}">>,
     <<"{", "a", ":", " ", "[", "1", "]", "}">>,
     <<"{", "a", ":", " ", "[", "'", "s", "'", "]", "}">>,
     <<"{", "a", ":", " ", "{", "b", ":", " ", "1", "}", "}">>,
     <<"{", "a", ":", " ", "{", "b", ":", " ", "'", "s", "'", "}", "}">>,
     <<"{", "a", ":", " ", "{", "c", ":", " ", "1", "}", "}">>,
     <<"{", "b", ":", " ", "1", "}">>,
     <<"{", "a", ":", " ", "'", "x", "'", ",", " ", "b", ":", " ", "1", "}">>,
     <<"{", "a", ":", " ", "'", "y", "'", ",", " ", "b", ":", " ", "2", "}">>,
     <<"{", "a", ":", " ", "1", ",", " ", "b", ":", " ", "'", "x", "'", "}">>}

CmpBodies ==
    {[contentType |-> contentType, properties |-> Properties(text)] :
        contentType \in {"application/json", "text/plain"}, text \in CmpTexts}

InitCmp ==
    /\ endpoints = EmptyDict
    /\ queue = <<>>
    /\ n_files = 0
    /\ analysed = {}
    /\ seen = {}
    /\ last = [fact |-> NoFact, again |-> FALSE]
    /\ observed = <<>>
    /\ call = CallIdle
    /\ norm = NormIdle
    /\ ext = ExtIdle
    /\ tok = TokIdle
    /\ cmp \in {[body1 |-> body1, body2 |-> body2, result |-> "pending"] :
                    body1 \in CmpBodies, body2 \in CmpBodies}

Compare ==
    /\ cmp.result = "pending"
    /\ cmp' = [cmp EXCEPT !.result =
                  IF _compare_body_structures(cmp.body1, cmp.body2)
                  THEN "True" ELSE "False"]
    /\ UNCHANGED <<endpoints, queue, n_files, analysed, seen, last, observed, tok, ext,
                   call, norm>>

NextCmp == Compare

SpecCmp == InitCmp /\ [][NextCmp]_vars

(***************************************************************************)
(* One evaluation of _extract_body_structure's extraction, lines 399-534,  *)
(* on an object literal that holds one value: as the value of the          *)
(* property v, or as the value of the property a of an object which is the *)
(* value of the property o.                                                *)
(***************************************************************************)
MaxValLen == 2

MaxPieces == 3

\* the characters the classification of lines 471-530 looks at
ValAlphabet == {"1", "-", ".", "'", "\"", "[", "]", "{", "}", " ", "x"}

ValExamples ==
    {<<"t", "r", "u", "e">>,
     <<"f", "a", "l", "s", "e">>,
     <<"4", "2">>,
     <<"-", "5">>,
     <<"1", ".", "5">>,
     <<"'", "4", "2", "'">>,
     <<"\"", "4", "2", "\"">>,
     <<"'", "x", "'">>,
     <<"\"", "x", "'", "\"">>,
     <<"[", "1", ",", "2", "]">>,
     <<"[", "'", "s", "'", "]">>,
     <<"[", "]">>,
     <<"{", "}">>,
     <<"{", " ", "}">>,
     <<"{", "f", "o", "o", "}">>,
     <<"{", "a", ":", " ", "1", "}">>,
     <<"{", "a", ":", " ", "[", "1", ",", "2", "]", "}">>,
     <<"{", "a", ":", " ", "'", "x", "'", "}">>,
     <<"{", "a", ":", " ", "t", "r", "u", "e", "}">>,
     <<"n", "e", "w", " ", "D", "a", "t", "e", "(", ")">>,
     <<"n", "e", "w", " ", "F", "o", "o", "(", ")">>,
     <<"n", "u", "l", "l">>,
     <<"T", "r", "u", "e">>}

ExtValues == UNION {[1..k -> ValAlphabet] : k \in 0..MaxValLen} \cup ValExamples

key_v == <<"v">>

key_o == <<"o">>

key_a == <<"a">>

TopLiteral(value) == <<"{", "v", ":", " ">> \o value \o <<"}">>

NestedLiteral(value) ==
    <<"{", "o", ":", " ", "{", "a", ":", " ">> \o value \o <<"}", "}">>

\* the texts written between the commas of an object literal: key and
\* value, a name without a value, a key in quotes, a key with a colon
Pieces ==
    {<<"a", ":", "1">>,
     <<"a", ":", "'", "x", "'">>,
     <<"b", ":", "t", "r", "u", "e">>,
     <<"f", "o", "o">>,
     <<"\"", "k", "\"", ":", "2">>,
     <<"'", "a", ":", "b", "'", ":", " ", "1">>}

PieceLists == UNION {[1..k -> Pieces] : k \in 1..MaxPieces}

RECURSIVE JoinPieces(_)
JoinPieces(parts) ==
    IF parts = <<>> THEN <<>>
    ELSE IF Len(parts) = 1 THEN parts[1]
    ELSE parts[1] \o <<",">> \o JoinPieces(Tail(parts))

BodyLiteral(parts) == <<"{">> \o JoinPieces(parts) \o <<"}">>

InitExt ==
    /\ endpoints = EmptyDict
    /\ queue = <<>>
    /\ n_files = 0
    /\ analysed = {}
    /\ seen = {}
    /\ last = [fact |-> NoFact, again |-> FALSE]
    /\ observed = <<>>
    /\ call = CallIdle
    /\ norm = NormIdle
    /\ tok = TokIdle
    /\ cmp = CmpIdle
    /\ \/ \E value \in ExtValues, nested \in BOOLEAN :
              ext = [value |-> value,
                     parts |-> <<>>,
                     body_content |-> IF nested THEN NestedLiteral(value)
                                      ELSE TopLiteral(value),
                     stage |-> IF nested THEN "nested" ELSE "top",
                     properties |-> EmptyDict]
       \/ \E parts \in PieceLists :
              ext = [value |-> <<>>,
                     parts |-> parts,
                     body_content |-> BodyLiteral(parts),
                     stage |-> "body",
                     properties |-> EmptyDict]

\* lines 399-534 on ext.body_content
Extract ==
    /\ ext.stage \in {"top", "nested", "body"}
    /\ ext' = [ext EXCEPT !.properties = Properties(ext.body_content),
                          !.stage = IF @ = "top" THEN "top_done"
                                    ELSE IF @ = "nested" THEN "nested_done"
                                    ELSE "body_done"]
    /\ UNCHANGED <<endpoints, queue, n_files, analysed, seen, last, observed, tok, cmp,
                   call, norm>>

NextExt == Extract

SpecExt == InitExt /\ [][NextExt]_vars

(***************************************************************************)
(* The exporter's _normalize_path, generate_openapi_spec.py lines 191-208, *)
(* on an endpoint key made of path segments.                               *)
(***************************************************************************)
MaxSegments == 3

\* re.sub(r'\${([^}]+)}', r'{\1}', t), from position i
RECURSIVE BraceSub(_, _)
BraceSub(t, i) ==
    IF i > Len(t) THEN <<>>
    ELSE IF MarkerEnd(t, i) > 0
    THEN Sub(t, i + 1, MarkerEnd(t, i)) \o BraceSub(t, MarkerEnd(t, i) + 1)
    ELSE <<t[i]>> \o BraceSub(t, i + 1)

\* str.replace(old, new, 1)
ReplaceFirst(s, old, new) ==
    IF Find(s, old) = 0 THEN s
    ELSE Take(s, Find(s, old) - 1) \o new \o Drop(s, Find(s, old) + Len(old) - 1)

\* str(n) for n >= 0
RECURSIVE Decimal(_)
Decimal(n) ==
    LET digit == <<"0", "1", "2", "3", "4", "5", "6", "7", "8", "9">>[(n % 10) + 1]
    IN  IF n < 10 THEN <<digit>> ELSE Append(Decimal(n \div 10), digit)

\* f"param{param_count}"
ParamName(param_count) == <<"p", "a", "r", "a", "m">> \o Decimal(param_count)

\* re.findall(r'{([^}]+)}', t), from position i
RECURSIVE BraceNames(_, _)
BraceNames(t, i) ==
    IF i > Len(t) THEN <<>>
    ELSE LET e == RunNotIn(t, i + 1, {"}"}) + 1
         IN  IF t[i] = "{" /\ e <= Len(t) /\ e >= i + 2
             THEN <<Sub(t, i + 1, e - 1)>> \o BraceNames(t, e + 1)
             ELSE BraceNames(t, i + 1)

\* lines 204-206: the names not yet in path_params, appended in order
RECURSIVE AppendNew(_, _)
AppendNew(path_params, names) ==
    IF names = <<>> THEN path_params
    ELSE IF Head(names) \in Range(path_params)
    THEN AppendNew(path_params, Tail(names))
    ELSE AppendNew(Append(path_params, Head(names)), Tail(names))

\* the segments of the endpoint keys: the aggregator's placeholder, a raw
\* template marker, a named placeholder, a literal segment, and a name of
\* the numbered scheme
Segments ==
    {<<"{", "P", "A", "R", "A", "M", "}">>,
     <<"$", "{", "i", "d", "}">>,
     <<"{", "x", "}">>,
     <<"u">>,
     <<"{", "p", "a", "r", "a", "m", "1", "}">>}

SegmentLists == UNION {[1..k -> Segments] : k \in 0..MaxSegments}

RECURSIVE JoinSegments(_)
JoinSegments(segments) ==
    IF segments = <<>> THEN <<>>
    ELSE <<"/">> \o Head(segments) \o JoinSegments(Tail(segments))

\* path_params = [] and the call of line 72
InitNorm ==
    /\ endpoints = EmptyDict
    /\ queue = <<>>
    /\ n_files = 0
    /\ analysed = {}
    /\ seen = {}
    /\ last = [fact |-> NoFact, again |-> FALSE]
    /\ observed = <<>>
    /\ call = CallIdle
    /\ tok = TokIdle
    /\ cmp = CmpIdle
    /\ ext = ExtIdle
    /\ \E segments \in SegmentLists :
           norm = [endpoint |-> JoinSegments(segments),
                   path |-> JoinSegments(segments),
                   path_params |-> <<>>,
                   param_count |-> 1,
                   stage |-> "start"]

\* line 194
NormSub ==
    /\ norm.stage = "start"
    /\ norm' = [norm EXCEPT !.path = BraceSub(norm.endpoint, 1), !.stage = "loop"]
    /\ UNCHANGED <<endpoints, queue, n_files, analysed, seen, last, observed, tok,
                   cmp, ext, call>>

\* lines 198-201: one turn of while '{PARAM}' in path
NormReplace ==
    /\ norm.stage = "loop"
    /\ Contains(norm.path, PARAM)
    /\ norm' = [norm EXCEPT
                   !.path = ReplaceFirst(@, PARAM,
                                <<"{">> \o ParamName(norm.param_count) \o <<"}">>),
                   !.path_params = Append(@, ParamName(norm.param_count)),
                   !.param_count = @ + 1]
    /\ UNCHANGED <<endpoints, queue, n_files, analysed, seen, last, observed, tok,
                   cmp, ext, call>>

\* lines 204-208, after the loop
NormOthers ==
    /\ norm.stage = "loop"
    /\ ~Contains(norm.path, PARAM)
    /\ norm' = [norm EXCEPT
                   !.path_params = AppendNew(@, BraceNames(norm.path, 1)),
                   !.stage = "done"]
    /\ UNCHANGED <<endpoints, queue, n_files, analysed, seen, last, observed, tok,
                   cmp, ext, call>>

NextNorm == NormSub \/ NormReplace \/ NormOthers

SpecNorm == InitNorm /\ [][NextNorm]_vars

(***************************************************************************)
(* The search for the end of a call, _process_api_call_with_params lines   *)
(* 283-316.  Positions count from 0 as in the source: content[pos] of the  *)
(* source is content[pos + 1] here.  The content is some text, the call    *)
(* f( at start_pos, and the text after it; p stands for an object          *)
(* params: {...}, which the search of line 315 finds when it lies in       *)
(* call_content.                                                           *)
(***************************************************************************)
MaxCallLen == 3

SearchRange == 2000

CallAlphabet == {"(", ")", "p"}

CallTexts == UNION {[1..k -> CallAlphabet] : k \in 0..MaxCallLen}

Min(x, y) == IF x <= y THEN x ELSE y

\* content.find(sub, start) for a one-character sub
FindFrom(content, char, start) ==
    LET hits == {i \in start..(Len(content) - 1) : content[i + 1] = char}
    IN  IF hits = {} THEN -1 ELSE CHOOSE i \in hits : \A j \in hits : i <= j

InitCall ==
    /\ endpoints = EmptyDict
    /\ queue = <<>>
    /\ n_files = 0
    /\ analysed = {}
    /\ seen = {}
    /\ last = [fact |-> NoFact, again |-> FALSE]
    /\ observed = <<>>
    /\ norm = NormIdle
    /\ tok = TokIdle
    /\ cmp = CmpIdle
    /\ ext = ExtIdle
    /\ \E before \in CallTexts, after \in CallTexts :
           /\ Len(before) + Len(after) <= MaxCallLen
           /\ call = [content |-> before \o <<"f", "(">> \o after,
                      start_pos |-> Len(before),
                      pos |-> Len(before),
                      open_parens |-> 1,
                      end_pos |-> -1,
                      call_content |-> <<>>,
                      params_match |-> FALSE,
                      stage |-> "scan"]

\* lines 292-299: one turn of while pos < max_pos
ParenStep ==
    /\ call.stage = "scan"
    /\ call.pos < Min(Len(call.content), call.start_pos + SearchRange)
    /\ LET char == call.content[call.pos + 1]
       IN  call' = IF char = "("
                   THEN [call EXCEPT !.open_parens = @ + 1, !.pos = @ + 1]
                   ELSE IF char = ")" /\ call.open_parens = 1
                   THEN [call EXCEPT !.open_parens = 0, !.end_pos = call.pos,
                                     !.stage = "found"]
                   ELSE IF char = ")"
                   THEN [call EXCEPT !.open_parens = @ - 1, !.pos = @ + 1]
                   ELSE [call EXCEPT !.pos = @ + 1]
    /\ UNCHANGED <<endpoints, queue, n_files, analysed, seen, last, observed, tok,
                   cmp, ext, norm>>

\* lines 301-305: the loop ended without a match
Fallback ==
    /\ call.stage = "scan"
    /\ call.pos >= Min(Len(call.content), call.start_pos + SearchRange)
    /\ LET end_pos == FindFrom(call.content, ")", call.start_pos)
       IN  call' = [call EXCEPT !.end_pos = end_pos,
                                !.stage = IF end_pos = -1 THEN "return"
                                          ELSE "found"]
    /\ UNCHANGED <<endpoints, queue, n_files, analysed, seen, last, observed, tok,
                   cmp, ext, norm>>

\* lines 308-316: call_content = content[start_pos:end_pos] and the search
\* for a params object in it
Slice ==
    /\ call.stage = "found"
    /\ LET call_content == Sub(call.content, call.start_pos + 1, call.end_pos)
       IN  call' = [call EXCEPT !.call_content = call_content,
                                !.params_match = "p" \in Range(call_content),
                                !.stage = "done"]
    /\ UNCHANGED <<endpoints, queue, n_files, analysed, seen, last, observed, tok,
                   cmp, ext, norm>>

NextCall == ParenStep \/ Fallback \/ Slice

SpecCall == InitCall /\ [][NextCall]_vars

(***************************************************************************)
(* The properties of the aggregator.                                       *)
(***************************************************************************)

\* C1: observing again a fact (a file, a parameter value, a template
\* parameter, a dynamic pattern, a method or a body) that was observed
\* before leaves the serialized form of the endpoints unchanged, whatever
\* the order in which the sets are listed.
IdempotentObservation ==
    [][(queue # <<>> /\ Head(queue) \in seen) =>
          \A hash_seed \in HashSeeds :
              _prepare_for_serialization(endpoints', hash_seed)
                  = _prepare_for_serialization(endpoints, hash_seed)]_vars

\* a body was observed for the second time, on an endpoint that stores one
IdempotentObservationWitness ==
    /\ last.again
    /\ last.fact.kind = "body"
    /\ last.fact.endpoint \in DOMAIN endpoints
    /\ endpoints[last.fact.endpoint].request_bodies # <<>>

\* C2: no endpoint stores two bodies that _compare_body_structures holds
\* equivalent, in either order of its arguments.
NoEquivalentBodies ==
    \A endpoint \in DOMAIN endpoints :
        LET stored == endpoints[endpoint].request_bodies
        IN  \A i \in DOMAIN stored : \A j \in DOMAIN stored :
                i # j => ~_compare_body_structures(stored[i], stored[j])

\* a body that is new, and equivalent to the second of two stored bodies,
\* was observed and not stored
NoEquivalentBodiesWitness ==
    /\ last.fact.kind = "body"
    /\ ~last.again
    /\ last.fact.endpoint \in DOMAIN endpoints
    /\ LET stored == endpoints[last.fact.endpoint].request_bodies
           body == BodyStructure(Properties(last.fact.a))
       IN  /\ Len(stored) >= 2
           /\ body \notin Range(stored)
           /\ \E i \in DOMAIN stored : _compare_body_structures(stored[i], body)

\* C3: no endpoint key holds an interpolation marker ${expr}, whichever
\* scanner recorded the endpoint.
CanonicalKeys ==
    \A endpoint \in DOMAIN endpoints :
        \A i \in DOMAIN endpoint : MarkerEnd(endpoint, i) = 0

\* the template literals of the analysed files whose path has dynamic parts
PathTemplates ==
    UNION {{content[i].text : i \in {j \in DOMAIN content :
                /\ TemplateLiteral(content[j])
                /\ StartsWith(content[j].text, api)
                /\ \E k \in DOMAIN content[j].text : MarkerEnd(content[j].text, k) > 0}} :
           content \in analysed}

userId == <<"u", "s", "e", "r", "I", "d">>

Additive ==
    [][\A endpoint \in DOMAIN endpoints :
          /\ endpoint \in DOMAIN endpoints'
          /\ LET old == endpoints[endpoint]
                 new == endpoints'[endpoint]
             IN  /\ old.files \subseteq new.files
                 /\ DOMAIN old.params \subseteq DOMAIN new.params
                 /\ \A param \in DOMAIN old.params :
                        old.params[param] \subseteq new.params[param]
                 /\ old.template_params \subseteq new.template_params
                 /\ old.dynamic_patterns \subseteq new.dynamic_patterns
                 /\ old.http_methods \subseteq new.http_methods
                 /\ Len(old.request_bodies) <= Len(new.request_bodies)
                 /\ \A i \in DOMAIN old.request_bodies :
                        new.request_bodies[i] = old.request_bodies[i]
                 /\ Len(old.responses) <= Len(new.responses)]_vars

\* a record that grew in files, in methods and in bodies
AdditiveWitness ==
    \E endpoint \in DOMAIN endpoints :
        /\ Cardinality(endpoints[endpoint].files) >= 2
        /\ Cardinality(endpoints[endpoint].http_methods) >= 2
        /\ Len(endpoints[endpoint].request_bodies) >= 2

\* C6: an observation for the key e leaves the record of every other key as
\* it was, and creates and removes no other key.
Frame ==
    [][queue # <<>> =>
          \A endpoint \in (DOMAIN endpoints \cup DOMAIN endpoints') \ {Head(queue).endpoint} :
              /\ endpoint \in DOMAIN endpoints
              /\ endpoint \in DOMAIN endpoints'
              /\ endpoints'[endpoint] = endpoints[endpoint]]_vars

\* a new method changed one record of several
FrameWitness ==
    /\ last.fact.kind = "method"
    /\ ~last.again
    /\ Cardinality(DOMAIN endpoints) >= 2
    /\ last.fact.a \in endpoints[last.fact.endpoint].http_methods

\* C7: the serialized http_methods of an endpoint is never empty: it is
\* <<GET>> when no method was observed for the endpoint, and otherwise lists
\* the observed methods, each once, and nothing else.
DefaultMethod ==
    \A hash_seed \in HashSeeds : \A endpoint \in DOMAIN endpoints :
        LET recorded == {f.a : f \in {g \in seen : g.kind = "method" /\ g.endpoint = endpoint}}
            http_methods == _prepare_for_serialization(endpoints, hash_seed)
                                .backend_endpoints[endpoint].http_methods
        IN  /\ http_methods # <<>>
            /\ recorded = {} => http_methods = <<GET>>
            /\ recorded # {} => /\ Range(http_methods) = recorded
                                /\ Len(http_methods) = Cardinality(recorded)

\* one endpoint without a method, another with a method that is not GET
DefaultMethodWitness ==
    /\ \E endpoint \in DOMAIN endpoints : endpoints[endpoint].http_methods = {}
    /\ \E endpoint \in DOMAIN endpoints :
           /\ endpoints[endpoint].http_methods # {}
           /\ GET \notin endpoints[endpoint].http_methods

\* C8: params[name] of an endpoint is the set of the values observed for
\* name on the endpoint so far: every one of them, and no other.
MergedValues ==
    /\ \A f \in seen : f.kind = "param" =>
           /\ f.endpoint \in DOMAIN endpoints
           /\ f.a \in DOMAIN endpoints[f.endpoint].params
    /\ \A endpoint \in DOMAIN endpoints :
           \A name \in DOMAIN endpoints[endpoint].params :
               endpoints[endpoint].params[name]
                   = {f.b : f \in {g \in seen : /\ g.kind = "param"
                                                  /\ g.endpoint = endpoint
                                                  /\ g.a = name}}

\* page=1 and then page=2 (or the other way round) on /api/u
MergedValuesWitness ==
    /\ (api \o <<"u">>) \in DOMAIN endpoints
    /\ <<"p", "a", "g", "e">> \in DOMAIN endpoints[api \o <<"u">>].params
    /\ endpoints[api \o <<"u">>].params[<<"p", "a", "g", "e">>] = {<<"1">>, <<"2">>}

(***************************************************************************)
(* The properties of the tokenizer and of the comparison.                  *)
(***************************************************************************)
Depth(text, open, close) ==
    Cardinality({i \in DOMAIN text : text[i] = open})
        - Cardinality({i \in DOMAIN text : text[i] = close})

\* C9: the tokenizer ends a token at a character exactly when the character
\* is a comma, outside a quoted string, with as many closing as opening
\* braces and as many closing as opening brackets before it; and
\* a: {x: 1, y: 2}, b: [1,2,3] gives the two tokens a: {x: 1, y: 2} and
\* b: [1,2,3].
TokenizerNesting ==
    [][/\ tok'.pos = tok.pos + 1 =>
              LET char == tok.content_inside[tok'.pos]
                  before == Take(tok.content_inside, tok.pos)
              IN  /\ Len(tok'.st.tokens) \in {Len(tok.st.tokens), Len(tok.st.tokens) + 1}
                  /\ (Len(tok'.st.tokens) = Len(tok.st.tokens) + 1)
                        <=> /\ char = ","
                            /\ ~tok.st.in_string
                            /\ Depth(before, "{", "}") = 0
                            /\ Depth(before, "[", "]") = 0
       /\ (tok'.done /\ tok'.content_inside = TokExample) =>
              tok'.st.tokens =
                  <<<<"a", ":", " ", "{", "x", ":", " ", "1", ",", " ", "y", ":", " ", "2", "}">>,
                    <<"b", ":", " ", "[", "1", ",", "2", ",", "3", "]">>>>]_vars

\* the example is tokenized
TokenizerNestingWitness ==
    /\ tok.done
    /\ tok.content_inside = TokExample
    /\ Len(tok.st.tokens) = 2

\* C10: _compare_body_structures holds of two bodies exactly when they have
\* the same content type, both or neither have properties, the names of
\* their properties are the same, and each name has the same type in both;
\* the examples, the items and the nested properties have no part in it.
BodyEquivalence ==
    cmp.result \in {"True", "False"} =>
        (cmp.result = "True" <=>
            /\ cmp.body1.contentType = cmp.body2.contentType
            /\ (DOMAIN cmp.body1.properties = {}) <=> (DOMAIN cmp.body2.properties = {})
            /\ DOMAIN cmp.body1.properties = DOMAIN cmp.body2.properties
            /\ \A name \in DOMAIN cmp.body1.properties \cap DOMAIN cmp.body2.properties :
                   cmp.body1.properties[name].type = cmp.body2.properties[name].type)

\* two bodies that differ in their examples or nested descriptions only
BodyEquivalenceWitness ==
    /\ cmp.result = "True"
    /\ cmp.body1 # cmp.body2
    /\ DOMAIN cmp.body1.properties # {}

(***************************************************************************)
(* The properties of the body extractor.                                   *)
(***************************************************************************)

\* C11: the descriptor recorded for a property nested in an object-valued
\* property equals the descriptor that the same value gets as a top-level
\* property: the same type, the same example (the number 1 for 1, not the
\* text "1") and, for an array, the same items.
NestedRefinement ==
    /\ ext.stage = "nested_done"
    /\ key_o \in DOMAIN ext.properties
    /\ "properties" \in DOMAIN ext.properties[key_o]
    /\ key_a \in DOMAIN ext.properties[key_o].properties
    => ext.properties[key_o].properties[key_a]
           = Properties(TopLiteral(ext.value))[key_v]

\* an object literal with nothing but whitespace between its outer braces
Blank(body_content) ==
    LET text == Strip(body_content)
    IN  /\ Len(text) >= 2
        /\ Head(text) = "{"
        /\ text[Len(text)] = "}"
        /\ \A i \in 2..(Len(text) - 1) : text[i] \in Whitespace

\* C12: the observation of a blank object literal as a body gives a body
\* whose properties are the one sentinel emptyObject; the body is appended
\* to the endpoint's request_bodies unless an equivalent body is stored
\* there, and after the observation an equivalent body is stored.
EmptyObjectStored ==
    [][queue # <<>> /\ Head(queue).kind = "body" /\ Blank(Head(queue).a)
       => LET f == Head(queue)
              body == BodyStructure(Properties(f.a))
              before == IF f.endpoint \in DOMAIN endpoints
                        THEN endpoints[f.endpoint].request_bodies ELSE <<>>
              after == endpoints'[f.endpoint].request_bodies
          IN  /\ DOMAIN body.properties = {emptyObject}
              /\ IF \E i \in DOMAIN before :
                        _compare_body_structures(before[i], body)
                 THEN after = before
                 ELSE after = Append(before, body)
              /\ \E i \in DOMAIN after :
                     DOMAIN after[i].properties = {emptyObject}]_vars

\* a blank object literal was observed on an endpoint that had a body of
\* another shape, and was appended after it
EmptyObjectStoredWitness ==
    /\ last.fact.kind = "body"
    /\ Blank(last.fact.a)
    /\ LET request_bodies == endpoints[last.fact.endpoint].request_bodies
       IN  /\ Len(request_bodies) = 2
           /\ DOMAIN request_bodies[2].properties = {emptyObject}
           /\ DOMAIN request_bodies[1].properties # {emptyObject}

\* C13: a query parameter observed without a literal value is a key of the
\* endpoint's params, and the observation adds no element to its value
\* set: the set holds the literal values observed for the name and nothing
\* else, so it is empty when the name was only observed without a value.
ValuelessParamEmpty ==
    \A f \in seen :
        f.kind = "param" /\ f.b = None
        => /\ f.endpoint \in DOMAIN endpoints
           /\ f.a \in DOMAIN endpoints[f.endpoint].params
           /\ endpoints[f.endpoint].params[f.a]
                  = {g.b : g \in {h \in seen : /\ h.kind = "param"
                                               /\ h.endpoint = f.endpoint
                                               /\ h.a = f.a
                                               /\ h.b # None}}

\* the observations of one kind made on an endpoint, whatever their order
\* and their number
SeenOn(endpoint, kind) == {f \in seen : f.kind = kind /\ f.endpoint = endpoint}

\* the set-valued fields of the records
SetFields(eps) ==
    [endpoint \in DOMAIN eps |->
        [files |-> eps[endpoint].files,
         params |-> eps[endpoint].params,
         template_params |-> eps[endpoint].template_params,
         dynamic_patterns |-> eps[endpoint].dynamic_patterns,
         http_methods |-> eps[endpoint].http_methods]]

\* C14: files, the value sets of params, template_params, dynamic_patterns
\* and http_methods of every endpoint depend on which facts were observed
\* and not on their order: each is the set of what was observed for it, and
\* observing the next two facts in the other order gives the same fields.
OrderIrrelevance ==
    /\ \A endpoint \in DOMAIN endpoints :
           LET record == endpoints[endpoint]
           IN  /\ record.files = {f.a : f \in SeenOn(endpoint, "file")}
               /\ DOMAIN record.params = {f.a : f \in SeenOn(endpoint, "param")}
               /\ \A name \in DOMAIN record.params :
                      record.params[name]
                          = {f.b : f \in {g \in SeenOn(endpoint, "param") :
                                              g.a = name}}
               /\ record.template_params
                      = {f.a : f \in SeenOn(endpoint, "template")}
               /\ record.dynamic_patterns
                      = {f.a \o dynamic : f \in SeenOn(endpoint, "dynamic")}
               /\ record.http_methods
                      = {f.a : f \in SeenOn(endpoint, "method")}
    /\ Len(queue) >= 2
       => SetFields(Apply(Apply(endpoints, queue[1]), queue[2]))
              = SetFields(Apply(Apply(endpoints, queue[2]), queue[1]))

\* userId was observed on /api/u/{PARAM} after id, in a run that analysed
\* the two files in this order
OrderIrrelevanceWitness ==
    /\ last.fact.kind = "template"
    /\ last.fact.a = userId
    /\ ~last.again
    /\ Cardinality(endpoints[last.fact.endpoint].template_params) = 2

\* the body structures observed on an endpoint, in the order observed
ObservedBodies(endpoint) ==
    LET OnEndpoint(f) == f.endpoint = endpoint /\ DOMAIN Properties(f.a) # {}
        facts == SelectSeq(observed, OnEndpoint)
    IN  [i \in DOMAIN facts |-> BodyStructure(Properties(facts[i].a))]

\* of the first n bodies, those that no earlier one is equivalent to
RECURSIVE FirstOfClass(_, _)
FirstOfClass(bodies, n) ==
    IF n = 0 THEN <<>>
    ELSE IF \E j \in 1..(n - 1) : _compare_body_structures(bodies[j], bodies[n])
    THEN FirstOfClass(bodies, n - 1)
    ELSE Append(FirstOfClass(bodies, n - 1), bodies[n])

\* C15: request_bodies of an endpoint is the subsequence of the bodies
\* observed on it made of the first body of each equivalence class, in the
\* order observed and with the examples of that first body; so observing a
\* body equivalent to a stored one changes nothing and observing any other
\* body appends it at the end.
FirstSeenOrder ==
    /\ \A endpoint \in DOMAIN endpoints :
           endpoints[endpoint].request_bodies
               = FirstOfClass(ObservedBodies(endpoint),
                              Len(ObservedBodies(endpoint)))
    /\ \A i \in DOMAIN observed : ObservedBodies(observed[i].endpoint) # <<>>
                                  => observed[i].endpoint \in DOMAIN endpoints

\* three bodies were observed on an endpoint: the second is equivalent to
\* the first with other examples and is not stored, the third is stored
\* second
FirstSeenOrderWitness ==
    \E endpoint \in DOMAIN endpoints :
        LET bodies == ObservedBodies(endpoint)
            request_bodies == endpoints[endpoint].request_bodies
        IN  /\ Len(bodies) = 3
            /\ bodies[2] # bodies[1]
            /\ _compare_body_structures(bodies[1], bodies[2])
            /\ request_bodies = <<bodies[1], bodies[3]>>

\* C16: the serialized form of the endpoints is the same in every run: the
\* order in which a set is listed depends on the set's content alone, not
\* on the process that lists it.
ReproducibleSerialization ==
    \A run1 \in HashSeeds, run2 \in HashSeeds :
        _prepare_for_serialization(endpoints, run1)
            = _prepare_for_serialization(endpoints, run2)

\* the character at position i of text follows an odd number of backslashes
Escaped(text, i) ==
    \E k \in 1..(i - 1) :
        /\ k % 2 = 1
        /\ \A j \in (i - k)..(i - 1) : text[j] = "\\"
        /\ (i - k = 1 \/ text[i - k - 1] # "\\")

\* C17: while the tokenizer is inside a quoted string, a quote of the other
\* kind and a backslash-escaped quote of the active kind leave the
\* in-string flag and the active quote as they are; and
\* a: 'it\'s, ok', b: 1 gives the two tokens a: 'it\'s, ok' and b: 1.
EscapedQuoteKeepsString ==
    [][/\ tok'.pos = tok.pos + 1 /\ tok.st.in_string
          /\ tok.content_inside[tok'.pos] \in Quotes
          /\ \/ tok.content_inside[tok'.pos] # tok.st.string_delimiter
             \/ Escaped(tok.content_inside, tok'.pos)
          => /\ tok'.st.in_string
             /\ tok'.st.string_delimiter = tok.st.string_delimiter
       /\ tok'.done /\ tok.content_inside = TokEscaped
          => tok'.st.tokens = <<Take(TokEscaped, 14), Drop(TokEscaped, 16)>>]_vars

\* the characters of text that are neither a comma nor whitespace, in order
Kept(text) ==
    LET Counted(char) == char \notin Whitespace \cup {","}
    IN  SelectSeq(text, Counted)

\* C18: on every text, balanced or not, the tokenizer reaches the end of
\* the text and finishes; what follows the last splitting comma is then the
\* last token when it is not blank, and the tokens together hold every
\* character of the text that is neither a comma nor whitespace, in order.
TokenizerTotal ==
    ~tok.done
    ~> /\ tok.done
       /\ tok.pos = Len(tok.content_inside)
       /\ Kept(Concat(tok.st.tokens)) = Kept(tok.content_inside)
       /\ LET rest == tok.st.current_token
              start == Len(tok.content_inside) - Len(rest)
          IN  /\ rest = Drop(tok.content_inside, start)
              /\ start = 0 \/ tok.content_inside[start] = ","
              /\ Strip(rest) # <<>>
                 => /\ tok.st.tokens # <<>>
                    /\ tok.st.tokens[Len(tok.st.tokens)] = Strip(rest)

\* the end of a text that leaves a brace and a quote open, with the text
\* after its comma as the last token
TokenizerTotalWitness ==
    /\ tok.done
    /\ tok.st.bracket_depth > 0
    /\ tok.st.in_string
    /\ Len(tok.st.tokens) = 2
    /\ tok.st.tokens[2] = Strip(tok.st.current_token)

\* an optional minus sign, digits, and optionally a point and digits
NumberPattern(text) ==
    LET digits == IF text # <<>> /\ Head(text) = "-" THEN Tail(text) ELSE text
    IN  /\ digits # <<>>
        /\ \A i \in DOMAIN digits : digits[i] \in Digits \cup {"."}
        /\ Cardinality({i \in DOMAIN digits : digits[i] = "."}) <= 1
        /\ Head(digits) # "." /\ digits[Len(digits)] # "."

Enclosed(text, open, close) ==
    text # <<>> /\ Head(text) = open /\ text[Len(text)] = close

\* C19: every value gets a descriptor, by the first case that matches:
\* true or false is a boolean; else a number pattern is a number; else
\* [...] is an array; else {...} is an object; else a leading quote is a
\* string whose example is the text without the quotes around it; else
\* new ...Date... is a string whose example is the fixed timestamp; else a
\* string whose example is the text.  '42' is a string.
ClassificationPriority ==
    ext.stage = "top_done"
    => /\ DOMAIN ext.properties = {key_v}
       /\ LET value == Strip(ext.value)
              d == ext.properties[key_v]
          IN  /\ d.type \in {"string", "number", "boolean", "array", "object"}
              /\ "example" \in DOMAIN d
              /\ IF value = <<"t", "r", "u", "e">> \/ value = <<"f", "a", "l", "s", "e">>
                 THEN d.type = "boolean" /\ d.example = Bool(Head(value) = "t")
                 ELSE IF NumberPattern(value)
                 THEN d.type = "number" /\ d.example = NumberOf(value)
                 ELSE IF Enclosed(value, "[", "]")
                 THEN d.type = "array"
                 ELSE IF Enclosed(value, "{", "}")
                 THEN d.type = "object"
                 ELSE IF value # <<>> /\ Head(value) \in Quotes
                 THEN d.type = "string"
                      /\ d.example = Str(StripChars(value, Quotes))
                 ELSE IF Len(value) >= 4 /\ Take(value, 4) = <<"n", "e", "w", " ">>
                         /\ \E i \in 1..(Len(value) - 3) :
                                Sub(value, i, i + 3) = <<"D", "a", "t", "e">>
                 THEN d.type = "string" /\ d.example = Str(IsoDate)
                 ELSE d.type = "string" /\ d.example = Str(value)
       /\ ext.value = <<"'", "4", "2", "'">>
          => ext.properties[key_v] = [type |-> "string", example |-> Str(<<"4", "2">>)]

\* '42' was classified
ClassificationPriorityWitness ==
    /\ ext.stage = "top_done"
    /\ ext.value = <<"'", "4", "2", "'">>
    /\ ext.properties[key_v].type = "string"

\* C20: a value {...} from which no nested property is extracted (as {} or
\* {foo}) is recorded as a plain string: the type of its descriptor is
\* string, not object.
ObjectFallback ==
    /\ ext.stage = "top_done"
    /\ Enclosed(Strip(ext.value), "{", "}")
    /\ DOMAIN _extract_nested_object_properties(Strip(ext.value), EmptyDict) = {}
    => /\ key_v \in DOMAIN ext.properties
       /\ ext.properties[key_v].type = "string"

\* the positions of the colons of token that lie outside a quoted string
UnquotedColons(token) ==
    {i \in DOMAIN token : token[i] = ":" /\ ~TokScan(token, i - 1).in_string}

\* C21: a token is split at its first colon outside a quoted string: the
\* key is the text before that colon without its surrounding quotes, the
\* value is the text after it; 'a:b': 1 gives the key a:b and the value 1.
UnquotedColonSplit ==
    /\ ext.stage = "body_done"
    /\ Len(ext.parts) = 1
    /\ UnquotedColons(ext.parts[1]) # {}
    => LET token == ext.parts[1]
           colon == CHOOSE i \in UnquotedColons(token) :
                        \A j \in UnquotedColons(token) : i <= j
       IN  ext.properties
               = Put(EmptyDict, CleanKey(Take(token, colon - 1)),
                     Shape(Drop(token, colon)))

\* a token with a colon
WellFormed(token) == \E i \in DOMAIN token : token[i] = ":"

\* C22: a token without a colon is skipped on its own: the properties of
\* an object literal are those of the literal made of its well-formed
\* tokens alone, every key of a well-formed token is a property, and the
\* descriptor of a key is that of the last token with the key.
MalformedSkipped ==
    ext.stage = "body_done"
    => LET good == SelectSeq(ext.parts, WellFormed)
           Key(token) == CleanKey(SplitOnce(token, ":")[1])
           Value(token) == SplitOnce(token, ":")[2]
       IN  /\ ext.properties = IF good = <<>> THEN EmptyDict
                               ELSE Properties(BodyLiteral(good))
           /\ DOMAIN ext.properties = {Key(good[i]) : i \in DOMAIN good}
           /\ \A i \in DOMAIN good :
                  (\A j \in DOMAIN good : j > i => Key(good[j]) # Key(good[i]))
                  => ext.properties[Key(good[i])] = Shape(Value(good[i]))

\* a:1,foo,a:'x' was extracted: the name without a value between the two
\* tokens is skipped and the second a wins
MalformedSkippedWitness ==
    /\ ext.stage = "body_done"
    /\ Len(ext.parts) = 3
    /\ WellFormed(ext.parts[1]) /\ ~WellFormed(ext.parts[2]) /\ WellFormed(ext.parts[3])
    /\ DOMAIN ext.properties = {key_a}
    /\ ext.properties[key_a] = [type |-> "string", example |-> Str(<<"x">>)]

(***************************************************************************)
(* The properties of the exporter.                                         *)
(***************************************************************************)

\* the number of occurrences of {PARAM} in t from position i on
RECURSIVE Occurrences(_, _)
Occurrences(t, i) ==
    IF i > Len(t) THEN 0
    ELSE IF i + Len(PARAM) - 1 <= Len(t) /\ Sub(t, i, i + Len(PARAM) - 1) = PARAM
    THEN 1 + Occurrences(t, i + Len(PARAM))
    ELSE Occurrences(t, i + 1)

\* t from position i on, with its occurrences of {PARAM} replaced by
\* {param<n>}, {param<n+1>}, ... from the left
RECURSIVE Numbered(_, _, _)
Numbered(t, i, n) ==
    IF i > Len(t) THEN <<>>
    ELSE IF i + Len(PARAM) - 1 <= Len(t) /\ Sub(t, i, i + Len(PARAM) - 1) = PARAM
    THEN <<"{">> \o ParamName(n) \o <<"}">> \o Numbered(t, i + Len(PARAM), n + 1)
    ELSE <<t[i]>> \o Numbered(t, i + 1, n)

\* C23: for an endpoint key with k occurrences of {PARAM}, _normalize_path
\* returns the key with the i-th occurrence from the left replaced by
\* {param<i>} and nothing else changed, in which no {PARAM} remains; and
\* path_params lists param1..paramk in order, followed by the other
\* brace-delimited names of the path in order, each name once.
NumberedPlaceholders ==
    norm.stage = "done"
    => LET k == Occurrences(norm.endpoint, 1)
           names == BraceNames(norm.path, 1)
           First(name) == CHOOSE i \in DOMAIN names :
                              /\ names[i] = name
                              /\ \A j \in DOMAIN names : names[j] = name => i <= j
       IN  /\ ~Contains(norm.path, PARAM)
           /\ norm.path = Numbered(norm.endpoint, 1, 1)
           /\ Len(norm.path_params) >= k
           /\ \A i \in 1..k : norm.path_params[i] = ParamName(i)
           /\ \A i, j \in DOMAIN norm.path_params :
                  i # j => norm.path_params[i] # norm.path_params[j]
           /\ Range(norm.path_params) = {ParamName(i) : i \in 1..k} \cup Range(names)
           /\ \A i, j \in DOMAIN norm.path_params :
                  k < i /\ i < j
                  => First(norm.path_params[i]) < First(norm.path_params[j])

(***************************************************************************)
(* The properties of the scanners.                                         *)
(***************************************************************************)

\* the static parameters of a URL literal /api/<path>?<query>, each as the
\* observation of the parameter under the path of this literal
OwnParams(place) ==
    LET url == SplitOnce(place.text, "?")
        params == _parse_query_string(url[2])
    IN  {ParamFact(url[1], params[j][1], params[j][2]) : j \in DOMAIN params}

\* C24: each static query parameter of a URL literal is recorded under the
\* path of the literal it appears in, also when the file has several such
\* literals; and no parameter is recorded under the path of another URL:
\* every recorded parameter is one of a literal with this path or one that
\* another scanner observed for the endpoint.
StaticParamsOwnEndpoint ==
    queue = <<>>
    => /\ \A content \in analysed :
              \A i \in DOMAIN StaticMatches(content) :
                  \A f \in OwnParams(StaticMatches(content)[i]) :
                      /\ f.endpoint \in DOMAIN endpoints
                      /\ f.a \in DOMAIN endpoints[f.endpoint].params
                      /\ f.b \in endpoints[f.endpoint].params[f.a]
       /\ \A endpoint \in DOMAIN endpoints :
              \A name \in DOMAIN endpoints[endpoint].params :
                  \A value \in endpoints[endpoint].params[name] :
                      \E content \in analysed :
                          \/ \E i \in DOMAIN StaticMatches(content) :
                                 ParamFact(endpoint, name, value)
                                     \in OwnParams(StaticMatches(content)[i])
                          \/ \E filename \in Filenames :
                                 ParamFact(endpoint, name, value)
                                     \in Range(_find_template_literal_params(content, filename)
                                               \o _find_search_params_usage(content, filename)
                                               \o _find_axios_fetch_params(content, filename))

\* the position of the closing parenthesis that matches the opening
\* parenthesis at position open of content, -1 when there is none
Matching(content, open) ==
    LET Balance(i) == Cardinality({j \in (open + 1)..i : content[j + 1] = "("})
                          - Cardinality({j \in (open + 1)..i : content[j + 1] = ")"})
        hits == {i \in (open + 1)..(Len(content) - 1) :
                     content[i + 1] = ")" /\ Balance(i) = -1}
    IN  IF hits = {} THEN -1 ELSE CHOOSE i \in hits : \A j \in hits : i <= j

\* C25: when the closing parenthesis that matches the call's opening
\* parenthesis lies within the search range, call_content ends exactly at
\* it, and a params object written after it is not found in call_content.
CallEndsAtMatchingParen ==
    LET close == Matching(call.content, call.start_pos + 1)
    IN  /\ call.stage \in {"found", "return", "done"}
        /\ close # -1
        /\ close < call.start_pos + SearchRange
        => /\ call.end_pos = close
           /\ call.stage = "done"
              => /\ call.call_content
                        = Sub(call.content, call.start_pos + 1, close)
                 /\ call.params_match
                        = \E i \in (call.start_pos + 1)..close :
                              call.content[i] = "p"

\* C26: an endpoint that stores a request body has POST, PUT or PATCH among
\* its http_methods.
BodiesNeedBodyMethod ==
    \A endpoint \in DOMAIN endpoints :
        endpoints[endpoint].request_bodies # <<>>
        => endpoints[endpoint].http_methods \cap {POST, PUT, PATCH} # {}

\* an endpoint called with GET (an object as second argument) and with POST
\* stores a body, and the body of the POST call alone
BodiesNeedBodyMethodWitness ==
    \E endpoint \in DOMAIN endpoints :
        /\ GET \in endpoints[endpoint].http_methods
        /\ POST \in endpoints[endpoint].http_methods
        /\ Len(endpoints[endpoint].request_bodies) = 1
        /\ axios_get_params \in analysed

\* C27: every key of backend_endpoints has a non-empty files set: no record
\* exists for which no file was recorded.
RecordsHaveFiles ==
    \A endpoint \in DOMAIN endpoints : endpoints[endpoint].files # {}

\* the duplicate check on request_bodies just looked a record up, and a
\* body that holds no property left it as it was
RecordsHaveFilesWitness ==
    /\ last.fact.kind = "body"
    /\ last.fact.endpoint \in DOMAIN endpoints
    /\ endpoints[last.fact.endpoint].request_bodies = <<>>
    /\ endpoints[last.fact.endpoint].files # {}

\* an object literal with something between its braces and no token with a
\* colon
OnlyMalformed(body_content) ==
    LET stripped == Strip(body_content)
        content_inside == Strip(Sub(stripped, 2, Len(stripped) - 1))
        tokens == BodyTokens(content_inside)
    IN  /\ StartsWith(stripped, <<"{">>) /\ EndsWith(stripped, <<"}">>)
        /\ Len(stripped) >= 2
        /\ content_inside # <<>>
        /\ \A i \in DOMAIN tokens : ~WellFormed(tokens[i])

\* C28: no stored body has an empty properties mapping, and extracting an
\* object literal that holds malformed tokens only changes nothing in the
\* aggregator.
NoEmptyBodyStored ==
    /\ [](\A endpoint \in DOMAIN endpoints :
              \A i \in DOMAIN endpoints[endpoint].request_bodies :
                  DOMAIN endpoints[endpoint].request_bodies[i].properties # {})
    /\ [][queue # <<>> /\ Head(queue).kind = "body" /\ OnlyMalformed(Head(queue).a)
              => endpoints' = endpoints]_vars

\* {foo, bar} was extracted for an endpoint that stores the body of another
\* call
NoEmptyBodyStoredWitness ==
    /\ last.fact.kind = "body"
    /\ OnlyMalformed(last.fact.a)
    /\ observed # <<>>
    /\ \E endpoint \in DOMAIN endpoints : endpoints[endpoint].request_bodies # <<>>
    /\ endpoints[last.fact.endpoint].request_bodies = <<>>

\* C29: the type recorded for a value nested in an object-valued property
\* is the type the same value text gets as a top-level property.
TypeIndependentOfDepth ==
    /\ ext.stage = "nested_done"
    /\ key_o \in DOMAIN ext.properties
    /\ "properties" \in DOMAIN ext.properties[key_o]
    /\ key_a \in DOMAIN ext.properties[key_o].properties
    => /\ key_v \in DOMAIN Properties(TopLiteral(ext.value))
       /\ ext.properties[key_o].properties[key_a].type
              = Properties(TopLiteral(ext.value))[key_v].type

\* {o: {a: [1,2]}} was extracted: the nested a is an array, as the
\* top-level v of {v: [1,2]}, with another descriptor (no items)
TypeIndependentOfDepthWitness ==
    /\ ext.stage = "nested_done"
    /\ ext.value = <<"[", "1", ",", "2", "]">>
    /\ key_o \in DOMAIN ext.properties
    /\ "properties" \in DOMAIN ext.properties[key_o]
    /\ key_a \in DOMAIN ext.properties[key_o].properties
    /\ ext.properties[key_o].properties[key_a].type = "array"
    /\ ext.properties[key_o].properties[key_a]
           # Properties(TopLiteral(ext.value))[key_v]

\* C30: the inline loop of _extract_body_structure, _parse_array_items and
\* the loop of _extract_nested_object_properties give the same tokens for
\* every text, and the same tokens after every prefix of it.
OneTokenizer ==
    LET sofar == Take(tok.content_inside, tok.pos)
    IN  /\ tok.st.tokens = (IF tok.done THEN _parse_array_items(sofar)
                            ELSE ArrayScan(sofar, tok.pos).items)
        /\ tok.st.tokens = (IF tok.done THEN NestedTokens(sofar)
                            ELSE NestedScan(sofar, tok.pos).tokens)
        /\ ~tok.done
           => /\ tok.st.current_token = ArrayScan(sofar, tok.pos).current_item
              /\ tok.st.current_token = NestedScan(sofar, tok.pos).current_token

\* a: {x: 1, y: 2}, b: [1,2,3] was split by the inline loop into its two
\* properties, which hold commas between braces and between brackets
OneTokenizerWitness ==
    /\ tok.done
    /\ tok.content_inside = TokExample
    /\ Len(tok.st.tokens) = 2
    /\ _parse_array_items(TokExample) = tok.st.tokens
    /\ NestedTokens(TokExample) = tok.st.tokens

====
